---- MODULE Spec2Model ----
(***************************************************************************)
(* The icon daemon of cvh-icons: the Supervisor (IconDaemon), the icon     *)
(* session (DesktopIcon) and the IPC channel to one sandboxed child        *)
(* (LuaProcess).  The daemon is single-threaded: every handler runs to     *)
(* completion, so one action is one handler.  Children are separate OS     *)
(* processes: what a child does while the daemon waits for it is an input  *)
(* of the handler (a "behaviour"), what it does between handlers is an     *)
(* action of its own.                                                      *)
(***************************************************************************)
EXTENDS Integers, Sequences, FiniteSets, TLC

(***************************************************************************)
(* Bounds of the model.                                                    *)
(***************************************************************************)
\* child processes spawned in one run of the daemon
MaxPid == 2
\* requests, over all children, whose reply the daemon has not read, above
\* which the daemon sends no further Render or Position request
MaxOutstanding == 2

(***************************************************************************)
(* Program constants.                                                      *)
(***************************************************************************)
PROTOCOL_VERSION == 1
IPC_TIMEOUT == 500
DEFAULT_TIMEOUT == 1000
SHUTDOWN_TIMEOUT == 100
default_icon_size == 64

(***************************************************************************)
(* Paths.  A path is the sequence of the pieces of its final component;    *)
(* the watched directory is the same for all of them.  A file name is any  *)
(* sequence of bytes: InvalidByte is a piece that is not valid UTF-8.      *)
(***************************************************************************)
InvalidByte == "0xFF"
VisiblePath == <<"a", ".", "png">>
HiddenPath == <<".", "h">>
RawHiddenPath == <<".", InvalidByte>>
\* the paths of the events, and the entries the watched directory may hold
\* at the initial scan
Paths == {VisiblePath, HiddenPath}
Entries == Paths \cup {RawHiddenPath}

\* the icon types whose widget script the configured script directories
\* may hold (Config.script_dirs); for the other types add_icon finds none
ScriptTypes == {"Image"}

\* the final component of path begins with '.'
starts_with_dot(path) == Len(path) > 0 /\ path[1] = "."

(***************************************************************************)
(* Wire messages.  A response frame as the child writes it; Garbage is a   *)
(* body that does not decode, Oversize a frame whose length prefix is      *)
(* above MAX_MESSAGE_SIZE, Junk the unread body such a frame leaves in     *)
(* the pipe.                                                               *)
(***************************************************************************)
Frame(ty, version, success, commands, position) ==
    [ty |-> ty, version |-> version, success |-> success,
     commands |-> commands, position |-> position]

HandshakeAck(version, success) == Frame("HandshakeAck", version, success, <<>>, <<0, 0>>)
RenderResponse(commands) == Frame("Render", 0, FALSE, commands, <<0, 0>>)
PositionResponse(position) == Frame("Position", 0, FALSE, <<>>, position)
Plain(ty) == Frame(ty, 0, FALSE, <<>>, <<0, 0>>)

DrawCommand(op, color, x, y, w, h) ==
    [op |-> op, color |-> color, x |-> x, y |-> y, w |-> w, h |-> h]

\* a drawing command a script may answer with
ScriptCommand == DrawCommand("FillCircle", "#FFFFFF", 32, 32, 10, 10)

\* the frames a child is taken to answer with
Responses ==
    { HandshakeAck(PROTOCOL_VERSION, TRUE),
      HandshakeAck(PROTOCOL_VERSION + 1, TRUE),
      HandshakeAck(PROTOCOL_VERSION, FALSE),
      RenderResponse(<<ScriptCommand>>),
      PositionResponse(<<7, 9>>),
      PositionResponse(<<-1, 9>>),
      Plain("Error"), Plain("ShutdownAck"),
      Plain("Garbage"), Plain("Oversize") }

\* What a child does while the daemon waits for its reply: nothing (the
\* wait times out), exit (the daemon sees the hangup), or write a frame.
\* A child answers its requests in the order it got them, so the frame it
\* writes answers the oldest request it has not answered; a reply it writes
\* late, after the wait for it timed out, is what the next wait reads.
Beh(act) == [act |-> act, f |-> Plain("None")]
Reply(f) == [act |-> "reply", f |-> f]
Replies(types) == {Reply(f) : f \in {g \in Responses : g.ty \in types}}
\* while request_render waits
RenderBeh == {Beh("silent"), Beh("die")}
             \cup Replies({"Render", "Error", "Position", "Garbage", "Oversize"})
\* while request_position waits
PositionBeh == {Beh("silent"), Beh("die")}
               \cup Replies({"Position", "Error", "Render", "Garbage", "Oversize"})
\* during kill(): as above, or answer ShutdownAck and never exit
KillBeh == {Beh("silent"), Beh("die"), Beh("ackstay")}
           \cup Replies({"ShutdownAck", "Error"})
\* during spawn(): as above, or the launch itself fails, or the child
\* closes its stdin before the handshake is written
SpawnBeh == {Beh("silent"), Beh("die"), Beh("spawnfail"), Beh("wfail")}
            \cup Replies({"HandshakeAck", "Error", "Render"})
\* add_icon: as spawn, or find_script_for_icon finds no script
AddBeh == SpawnBeh \cup {Beh("noscript")}

(***************************************************************************)
(* One child process with the LuaProcess that owns its pipes.              *)
(*   st        none | running | zombie (exited, not reaped) | reaped       *)
(*   hs        LuaProcess.handshake_complete                               *)
(*   open      the LuaProcess has not been dropped (pipes open)            *)
(*   inflight  requests written to stdin that the child has not answered   *)
(*   out       frames in the stdout pipe, oldest first                     *)
(*   first     type of the first request written to the child              *)
(*   preHs     a request other than Handshake was written while ~hs        *)
(*   overlap   a request was written while an earlier one was outstanding  *)
(*   sibs      children of the same key alive when this one was spawned    *)
(*   ackGood   the reply read to Handshake was HandshakeAck with success   *)
(*             and the daemon's protocol version                           *)
(*   mismatch  the reply read to Handshake was HandshakeAck with success   *)
(*             and another protocol version                                *)
(*   maxwait   the longest timeout, in ms, of a wait for a frame of the     *)
(*             child                                                       *)
(*   log       what kill() and the drop of the LuaProcess did, in order:   *)
(*             "Shutdown" (frame written), "Shutdown:EPIPE" (write         *)
(*             failed), "ShutdownAck" (read), "SIGKILL" (signal sent),     *)
(*             "kill:exited" (child.kill() on a reaped child: no signal),  *)
(*             "wait" (child.wait() returned), "drop" (pipes dropped)      *)
(***************************************************************************)
NoProc ==
    [st |-> "none", key |-> <<>>, hs |-> FALSE, open |-> FALSE, inflight |-> 0,
     out |-> <<>>, first |-> "", preHs |-> FALSE, overlap |-> FALSE, sibs |-> 0,
     ackGood |-> FALSE, mismatch |-> FALSE, maxwait |-> 0, log |-> <<>>]

Live(p) == p.st \in {"running", "zombie"}

\* requests written to p whose reply has not been read
Outstanding(p) == p.inflight + Len(p.out)

\* LuaProcess::send_request: the frame reaches the child unless the read end
\* of its stdin is closed (child gone, or wfail)
send_request(p, ty, wfail) ==
    IF p.st # "running" \/ wfail
    THEN [p |-> p, ok |-> FALSE]
    ELSE [p |-> [p EXCEPT !.inflight = @ + 1,
                          !.first = IF @ = "" THEN ty ELSE @,
                          !.preHs = @ \/ (ty # "Handshake" /\ ~p.hs),
                          !.overlap = @ \/ (Outstanding(p) > 0)],
          ok |-> TRUE]

\* the child during a wait of the daemon; it answers its oldest request
ChildDuringWait(p, beh) ==
    IF p.st # "running" \/ p.out # <<>> THEN p
    ELSE IF beh.act = "die" THEN [p EXCEPT !.st = "zombie", !.inflight = 0]
    ELSE IF beh.act = "reply" /\ p.inflight > 0
         THEN [p EXCEPT !.out = <<beh.f>>, !.inflight = @ - 1]
    ELSE p

\* LuaProcess::receive_response_with_timeout: one frame, or an error
receive_response_with_timeout(p0, beh, timeout) ==
    LET p == [ChildDuringWait(p0, beh) EXCEPT
                !.maxwait = IF timeout > @ THEN timeout ELSE @] IN
    IF p.out = <<>>
    THEN [p |-> p, ok |-> FALSE,
          f |-> Plain(IF p.st = "running" THEN "Timeout" ELSE "PeerClosed"),
          waited |-> IF p.st = "running" THEN timeout ELSE 0]
    ELSE LET f == Head(p.out) IN
         IF f.ty = "Oversize"
         THEN [p |-> [p EXCEPT !.out = <<Plain("Junk")>> \o Tail(p.out)],
               ok |-> FALSE, f |-> Plain("OverSize"), waited |-> 0]
         ELSE IF f.ty \in {"Garbage", "Junk"}
         THEN [p |-> [p EXCEPT !.out = Tail(p.out)],
               ok |-> FALSE, f |-> Plain("DecodeError"), waited |-> 0]
         ELSE [p |-> [p EXCEPT !.out = Tail(p.out)], ok |-> TRUE, f |-> f,
               waited |-> 0]

\* LuaProcess::receive_response
receive_response(p, beh) == receive_response_with_timeout(p, beh, DEFAULT_TIMEOUT)

\* perform_handshake, the match on the response, without the comparison
\* of the version
handshake_response_any_version(r) ==
    LET p == [r.p EXCEPT !.ackGood = r.ok /\ r.f = HandshakeAck(PROTOCOL_VERSION, TRUE),
                         !.mismatch = /\ r.ok
                                      /\ r.f.ty = "HandshakeAck"
                                      /\ r.f.success
                                      /\ r.f.version # PROTOCOL_VERSION]
    IN IF ~r.ok THEN [p |-> p, ok |-> FALSE]
       ELSE IF r.f.ty = "HandshakeAck"
       THEN IF ~r.f.success THEN [p |-> p, ok |-> FALSE]
            ELSE [p |-> [p EXCEPT !.hs = TRUE], ok |-> TRUE]
       ELSE [p |-> p, ok |-> FALSE]

\* perform_handshake, the match on the response, with handshake_complete
\* set as soon as the ack reports success, before the version is compared
handshake_response_flag_first(r) ==
    LET p == [r.p EXCEPT !.ackGood = r.ok /\ r.f = HandshakeAck(PROTOCOL_VERSION, TRUE),
                         !.mismatch = /\ r.ok
                                      /\ r.f.ty = "HandshakeAck"
                                      /\ r.f.success
                                      /\ r.f.version # PROTOCOL_VERSION]
    IN IF ~r.ok THEN [p |-> p, ok |-> FALSE]
       ELSE IF r.f.ty = "HandshakeAck"
       THEN IF ~r.f.success THEN [p |-> p, ok |-> FALSE]
            ELSE IF r.f.version # PROTOCOL_VERSION
            THEN [p |-> [p EXCEPT !.hs = TRUE], ok |-> FALSE]
            ELSE [p |-> [p EXCEPT !.hs = TRUE], ok |-> TRUE]
       ELSE [p |-> p, ok |-> FALSE]

\* LuaProcess::perform_handshake, the match on the response r
handshake_response(r) ==
    LET p == [r.p EXCEPT !.ackGood = r.ok /\ r.f = HandshakeAck(PROTOCOL_VERSION, TRUE),
                         !.mismatch = /\ r.ok
                                      /\ r.f.ty = "HandshakeAck"
                                      /\ r.f.success
                                      /\ r.f.version # PROTOCOL_VERSION]
    IN IF ~r.ok THEN [p |-> p, ok |-> FALSE]
       ELSE IF r.f.ty = "HandshakeAck"
       THEN IF ~r.f.success THEN [p |-> p, ok |-> FALSE]
            ELSE IF r.f.version # PROTOCOL_VERSION THEN [p |-> p, ok |-> FALSE]
            ELSE [p |-> [p EXCEPT !.hs = TRUE], ok |-> TRUE]
       ELSE [p |-> p, ok |-> FALSE]

\* LuaProcess::perform_handshake after send_request (s is its result)
handshake_sent(s, beh) ==
    IF ~s.ok THEN [p |-> s.p, ok |-> FALSE]
    ELSE handshake_response(receive_response(s.p, beh))

\* LuaProcess::perform_handshake
perform_handshake(p0, beh) ==
    handshake_sent(send_request(p0, "Handshake", beh.act = "wfail"), beh)

\* child.kill() that signals the pid whether or not the child was waited on
ForceKill_always_signal(p) ==
    [p EXCEPT !.st = "reaped", !.inflight = 0, !.log = @ \o <<"SIGKILL", "wait">>]

\* child.kill() then child.wait(): the child is gone and reaped. A child
\* that was already waited on gets no signal
ForceKill(p) ==
    [p EXCEPT !.st = "reaped", !.inflight = 0,
              !.log = @ \o <<IF p.st = "reaped" THEN "kill:exited" ELSE "SIGKILL",
                             "wait">>]

\* kill() that force-kills after the wait whether or not ShutdownAck came
shutdown_response_kill_anyway(r, beh) ==
    IF r.ok /\ r.f.ty = "ShutdownAck"
    THEN [p |-> ForceKill([r.p EXCEPT !.log = @ \o <<"ShutdownAck">>]), hung |-> FALSE]
    ELSE [p |-> ForceKill(r.p), hung |-> FALSE]

\* LuaProcess::kill after the wait for ShutdownAck (r is its result).
\* hung: child.wait() after ShutdownAck never returns because the child
\* never exits
shutdown_response(r, beh) ==
    IF r.ok /\ r.f.ty = "ShutdownAck"
    THEN IF r.p.st = "running" /\ beh.act = "ackstay"
         THEN [p |-> [r.p EXCEPT !.log = @ \o <<"ShutdownAck">>], hung |-> TRUE]
         ELSE [p |-> [r.p EXCEPT !.st = "reaped", !.inflight = 0,
                                 !.log = @ \o <<"ShutdownAck", "wait">>],
               hung |-> FALSE]
    ELSE [p |-> ForceKill(r.p), hung |-> FALSE]

\* LuaProcess::kill, the graceful attempt: the error of send_request is
\* ignored
shutdown_sent(s, beh) ==
    shutdown_response(
        receive_response_with_timeout(
            [s.p EXCEPT !.log = @ \o <<IF s.ok THEN "Shutdown" ELSE "Shutdown:EPIPE">>],
            IF beh.act = "ackstay" THEN Reply(Plain("ShutdownAck")) ELSE beh,
            SHUTDOWN_TIMEOUT),
        beh)

\* LuaProcess::kill when the handshake completed
shutdown(p, beh) == shutdown_sent(send_request(p, "Shutdown", FALSE), beh)

\* kill() that sends Shutdown whether or not the handshake completed
kill_unconditional(p, beh) == shutdown(p, beh)

\* LuaProcess::kill
kill(p, beh) ==
    IF p.hs THEN shutdown(p, beh) ELSE [p |-> ForceKill(p), hung |-> FALSE]

\* the fields of a LuaProcess (the pipes) are dropped after kill() (k is
\* its result)
drop_fields(k) ==
    IF k.hung THEN k
    ELSE [p |-> [k.p EXCEPT !.open = FALSE, !.out = <<>>, !.log = @ \o <<"drop">>],
          hung |-> FALSE]

\* a LuaProcess without the Drop implementation: only the fields are dropped
drop_without_kill(p, beh) == drop_fields([p |-> p, hung |-> FALSE])

\* impl Drop for LuaProcess: kill(), then the fields are dropped
drop(p, beh) == drop_fields(kill(p, beh))

\* LuaProcess::is_running: try_wait() reaps a child that has exited
is_running(p) ==
    IF p.st = "running" THEN [p |-> p, running |-> TRUE]
    ELSE [p |-> [p EXCEPT !.st = "reaped"], running |-> FALSE]

(***************************************************************************)
(* The state the handlers work on, as one record w:                        *)
(*   icons     IconDaemon.icons, the session table (path -> DesktopIcon)   *)
(*   procs     every child spawned so far, by pid                          *)
(*   nextPid   the pid the next child gets                                 *)
(*   hung      the daemon is blocked for ever in child.wait()              *)
(*   attempts  calls of LuaProcess::spawn made by the running handler      *)
(***************************************************************************)
Pids == 1..MaxPid

\* children of key that are alive (spawned and not reaped)
LiveOf(procs, key) == {q \in Pids : Live(procs[q]) /\ procs[q].key = key}

\* LuaProcess::spawn after the handshake (h is its result): when it failed
\* the new LuaProcess is dropped
spawn_handshaken(w, pid, h) ==
    [w |-> [w EXCEPT !.procs[pid] = IF h.ok THEN h.p ELSE drop(h.p, Beh("silent")).p,
                     !.nextPid = pid + 1, !.attempts = @ + 1],
     pid |-> IF h.ok THEN pid ELSE 0, ok |-> h.ok]

\* LuaProcess::spawn: launch the child, then the handshake
spawn(w, key, beh) ==
    IF beh.act = "spawnfail"
    THEN [w |-> [w EXCEPT !.attempts = @ + 1], pid |-> 0, ok |-> FALSE]
    ELSE IF w.nextPid > MaxPid
    THEN [w |-> [w EXCEPT !.attempts = @ + 1, !.nextPid = @ + 1], pid |-> 0, ok |-> FALSE]
    ELSE spawn_handshaken(
             w, w.nextPid,
             perform_handshake(
                 [NoProc EXCEPT !.st = "running", !.key = key, !.open = TRUE,
                                !.sibs = Cardinality(LiveOf(w.procs, key))],
                 beh))

\* a LuaProcess taken out of its icon is dropped at the end of the block,
\* after process.kill() (k is its result)
drop_killed(w, pid, k) ==
    IF k.hung THEN [w EXCEPT !.procs[pid] = k.p, !.hung = TRUE]
    ELSE [w EXCEPT !.procs[pid] = drop(k.p, Beh("silent")).p]

\* process.kill() on a LuaProcess taken out of its icon
kill_and_drop(w, pid, beh) == drop_killed(w, pid, kill(w.procs[pid], beh))

(***************************************************************************)
(* DesktopIcon.  lua is the pid of lua_process, 0 for None; has_paths      *)
(* says that handler_path and script_path are Some; grid is (grid_x,       *)
(* grid_y), two u32; killed says that                                      *)
(* kill_lua_process has been called on the icon.                           *)
(***************************************************************************)
ExecutableExt == {"sh", "bash", "zsh", "fish", "py", "rb", "pl"}
ImageExt == {"png", "jpg", "jpeg", "gif", "bmp", "svg", "webp", "ico"}
DocumentExt == {"pdf", "doc", "docx", "odt", "txt", "md", "rst"}
ArchiveExt == {"zip", "tar", "gz", "bz2", "xz", "7z", "rar", "zst"}
VideoExt == {"mp4", "mkv", "avi", "mov", "webm", "flv"}
AudioExt == {"mp3", "flac", "wav", "ogg", "m4a", "opus"}

\* DesktopIcon::determine_type for a regular file without the executable
\* bit; a name that only starts with a dot has no extension
determine_type(path) ==
    IF Len(path) >= 3 /\ path[Len(path) - 1] = "."
    THEN LET ext == path[Len(path)] IN
         IF ext \in ExecutableExt THEN "Executable"
         ELSE IF ext \in ImageExt THEN "Image"
         ELSE IF ext \in DocumentExt THEN "Document"
         ELSE IF ext \in ArchiveExt THEN "Archive"
         ELSE IF ext \in VideoExt THEN "Video"
         ELSE IF ext \in AudioExt THEN "Audio"
         ELSE "File"
    ELSE "File"

\* A u32 as its two 16-bit halves.
\* x as u32, for an i32 x: a negative x wraps to x + 2^32
as_u32(x) ==
    IF x >= 0 THEN [hi |-> x \div 65536, lo |-> x % 65536]
    ELSE [hi |-> 32768 + ((x + 2147483647) + 1) \div 65536,
          lo |-> ((x + 2147483647) + 1) % 65536]

\* DesktopIcon::new
new_icon(path) ==
    [lua |-> 0, has_paths |-> FALSE, cache |-> <<>>, icon_type |-> determine_type(path),
     grid |-> <<as_u32(0), as_u32(0)>>, selected |-> FALSE, hovered |-> FALSE, size |-> default_icon_size,
     killed |-> FALSE]

\* DesktopIcon::spawn_lua_process, the result of LuaProcess::spawn (s)
spawn_result(icon, s) ==
    [w |-> s.w, icon |-> [icon EXCEPT !.has_paths = TRUE, !.lua = s.pid], ok |-> s.ok]

\* DesktopIcon::spawn_lua_process after the existing process was killed
spawn_after_kill(w, key, icon, beh) ==
    IF w.hung THEN [w |-> w, icon |-> icon, ok |-> FALSE]
    ELSE spawn_result(icon, spawn(w, key, beh))

\* DesktopIcon::spawn_lua_process
spawn_lua_process(w, key, icon, kbeh, beh) ==
    spawn_after_kill(IF icon.lua # 0 THEN kill_and_drop(w, icon.lua, kbeh) ELSE w,
                     key, [icon EXCEPT !.lua = 0], beh)

\* kill_lua_process that kills the process and leaves it in the icon
kill_lua_process_keep(w, icon, beh) ==
    IF icon.lua # 0
    THEN [w |-> kill_and_drop(w, icon.lua, beh), icon |-> [icon EXCEPT !.killed = TRUE]]
    ELSE [w |-> w, icon |-> [icon EXCEPT !.killed = TRUE]]

\* DesktopIcon::set_selected
set_selected(icon, selected) == [icon EXCEPT !.selected = selected]

\* DesktopIcon::set_hovered
set_hovered(icon, hovered) == [icon EXCEPT !.hovered = hovered]

\* DesktopIcon::on_click: the action is chosen by the button, nothing is
\* written to the child
on_click(icon, button) ==
    CASE button = 1 -> [icon |-> [icon EXCEPT !.selected = ~@], action |-> "Select"]
      [] button = 2 -> [icon |-> icon, action |-> "OpenInTerminal"]
      [] button = 3 -> [icon |-> icon, action |-> "ContextMenu"]
      [] OTHER -> [icon |-> icon, action |-> "None"]

\* DesktopIcon::on_double_click
on_double_click(icon) == [icon |-> icon, action |-> "Open"]

\* DesktopIcon::kill_lua_process
kill_lua_process(w, icon, beh) ==
    IF icon.lua # 0
    THEN [w |-> kill_and_drop(w, icon.lua, beh),
          icon |-> [icon EXCEPT !.lua = 0, !.killed = TRUE]]
    ELSE [w |-> w, icon |-> [icon EXCEPT !.killed = TRUE]]

\* DesktopIcon::ensure_process_running.  The child it replaces has exited
\* (is_running has just reaped it), so its kill() meets no behaviour
ensure_process_running(w, key, icon, beh) ==
    LET r == IF icon.lua # 0 THEN is_running(w.procs[icon.lua])
             ELSE [p |-> NoProc, running |-> FALSE]
        w1 == IF icon.lua # 0 THEN [w EXCEPT !.procs[icon.lua] = r.p] ELSE w
    IN IF r.running THEN [w |-> w1, icon |-> icon, ok |-> TRUE]
       ELSE IF icon.has_paths
       THEN spawn_lua_process(w1, key, icon, Beh("silent"), beh)
       ELSE [w |-> w1, icon |-> icon, ok |-> FALSE]

\* the fallback rectangle without its margin of four pixels
fallback_render_unpadded(icon) ==
    << DrawCommand("Clear", "#00000000", 0, 0, 0, 0),
       DrawCommand("FillRect", "#888888", 0, 0, icon.size, icon.size) >>

\* DesktopIcon::fallback_render
fallback_render(icon) ==
    LET color == CASE icon.icon_type = "Folder" -> "#4A90D9"
                   [] icon.icon_type = "Executable" -> "#73D216"
                   [] icon.icon_type = "Image" -> "#F57900"
                   [] icon.icon_type = "Document" -> "#EDD400"
                   [] icon.icon_type = "Archive" -> "#75507B"
                   [] icon.icon_type = "Video" -> "#C17D11"
                   [] icon.icon_type = "Audio" -> "#CC0000"
                   [] OTHER -> "#888888"
    IN << DrawCommand("Clear", "#00000000", 0, 0, 0, 0),
          DrawCommand("FillRect", color, 4, 4, icon.size - 8, icon.size - 8) >>

\* request_render, the arms of a failed exchange (Error, unexpected
\* response, receive error, send error): they log and change nothing
render_exchange_failed(w, key, icon, beh) == [w |-> w, icon |-> icon]

\* request_render, the end of the function: cached commands, else fallback
cached_or_fallback(icon) ==
    IF icon.cache # <<>> THEN icon.cache ELSE fallback_render(icon)

\* request_render when ensure_process_running returned false
render_not_running(icon) == icon.cache

\* request_render that drops the cached commands when the exchange fails
render_response_forgets_cache(w, key, icon, pid, r, sbeh) ==
    IF r.ok /\ r.f.ty = "Render"
    THEN [w |-> [w EXCEPT !.procs[pid] = r.p],
          icon |-> [icon EXCEPT !.cache = r.f.commands],
          ret |-> r.f.commands, failure |-> "none", exchanged |-> TRUE,
          after |-> 0]
    ELSE [w |-> [w EXCEPT !.procs[pid] = r.p], icon |-> [icon EXCEPT !.cache = <<>>],
          ret |-> fallback_render(icon), failure |-> r.f.ty, exchanged |-> TRUE,
          after |-> 0]

\* request_render, the match on the result r of the exchange with child pid
render_response(w, key, icon, pid, r, sbeh) ==
    LET w1 == [w EXCEPT !.procs[pid] = r.p] IN
    IF r.ok /\ r.f.ty = "Render"
    THEN [w |-> w1, icon |-> [icon EXCEPT !.cache = r.f.commands],
          ret |-> r.f.commands, failure |-> "none", exchanged |-> TRUE,
          after |-> 0]
    ELSE LET x == render_exchange_failed(w1, key, icon, sbeh) IN
         [w |-> x.w, icon |-> x.icon, ret |-> cached_or_fallback(x.icon),
          failure |-> r.f.ty, exchanged |-> TRUE,
          after |-> x.w.attempts - w1.attempts]

\* request_render after send_request (s is its result)
render_sent(w, key, icon, pid, s, rbeh, sbeh) ==
    render_response(w, key, icon, pid,
                    IF s.ok
                    THEN receive_response_with_timeout(s.p, rbeh, IPC_TIMEOUT)
                    ELSE [p |-> s.p, ok |-> FALSE, f |-> Plain("WriteFailed"),
                          waited |-> 0],
                    sbeh)

\* request_render after ensure_process_running (e is its result)
render_ensured(e, key, sbeh, wfail, rbeh) ==
    IF ~e.ok
    THEN [w |-> e.w, icon |-> e.icon, ret |-> render_not_running(e.icon),
          failure |-> "NotRunning", exchanged |-> FALSE, after |-> 0]
    ELSE render_sent(e.w, key, e.icon, e.icon.lua,
                     send_request(e.w.procs[e.icon.lua], "Render", wfail),
                     rbeh, sbeh)

\* request_render without the early return for an icon that has no process
request_render_retry(w, key, icon, sbeh, wfail, rbeh) ==
    render_ensured(ensure_process_running(w, key, icon, sbeh), key, sbeh, wfail, rbeh)

\* DesktopIcon::request_render.  failure names how the exchange ended
request_render(w, key, icon, sbeh, wfail, rbeh) ==
    IF icon.lua = 0
    THEN [w |-> w, icon |-> icon, ret |-> fallback_render(icon), failure |-> "NoProcess",
          exchanged |-> FALSE, after |-> 0]
    ELSE render_ensured(ensure_process_running(w, key, icon, sbeh),
                        key, sbeh, wfail, rbeh)

\* Option<u32>
None == [some |-> FALSE, v |-> 0]
Some(v) == [some |-> TRUE, v |-> v]
unwrap_or(o, d) == IF o.some THEN o.v ELSE d

\* u32 as i32: the same 32 bits read as a signed number
as_i32(u) ==
    IF u.hi < 32768 THEN u.hi * 65536 + u.lo
    ELSE (((u.hi - 32768) * 65536 + u.lo) - 2147483647) - 1

\* i32 a / b (towards zero), for b # 0 and not i32::MIN / -1
div_i32(a, b) ==
    LET towards_zero(n, d) == IF n >= 0 \/ n % d = 0 THEN n \div d ELSE (n \div d) + 1
    IN IF b > 0 THEN towards_zero(a, b)
       ELSE IF b = -2147483647 - 1 THEN (IF a = b THEN 1 ELSE 0)
       ELSE -towards_zero(a, -b)
Max(a, b) == IF a >= b THEN a ELSE b

\* i32 a + b modulo 2^32
wrapping_add(a, b) ==
    IF b > 0 /\ a > 2147483647 - b
    THEN ((a - 2147483647) - 1) + ((b - 2147483647) - 1)
    ELSE IF b < 0 /\ a < (-2147483647 - 1) - b
    THEN ((a + 2147483647) + 1) + ((b + 2147483647) + 1)
    ELSE a + b

\* i32 a * b leaves the range of i32
mul_overflows(a, b) ==
    IF a = 0 \/ b = 0 THEN FALSE
    ELSE IF a > 0 /\ b > 0 THEN a > div_i32(2147483647, b)
    ELSE IF a < 0 /\ b < 0 THEN a < div_i32(2147483647, b)
    ELSE IF a > 0 THEN b < div_i32(-2147483647 - 1, a)
    ELSE a < div_i32(-2147483647 - 1, b)

\* i32 a * b modulo 2^32: the product where it is in range, and else its low
\* 32 bits from the 16-bit halves of the operands
wrapping_mul(a, b) ==
    LET mul16(m, n) ==
            LET t0 == m * (n % 256)
                t1 == m * (n \div 256)
                low == (t1 % 256) * 256 + t0
            IN [hi |-> (low \div 65536 + t1 \div 256) % 65536, lo |-> low % 65536]
        u == as_u32(a)
        v == as_u32(b)
    IN IF ~mul_overflows(a, b) THEN a * b
       ELSE as_i32([hi |-> (mul16(u.lo, v.lo).hi + mul16(u.hi, v.lo).lo
                             + mul16(u.lo, v.hi).lo) % 65536,
                    lo |-> mul16(u.lo, v.lo).lo])

\* DesktopIcon::default_position, in a build with or without overflow checks:
\* a division by zero and i32::MIN / -1 panic in every build, an arithmetic
\* overflow panics with overflow checks and wraps without them
default_position(screen_width, icon_index, cell_width, cell_height, overflow_checks) ==
    LET cell_w == as_i32(unwrap_or(cell_width, as_u32(96)))
        cell_h == as_i32(unwrap_or(cell_height, as_u32(96)))
        margin == 20
        rem_i32(a, b) == a - b * div_i32(a, b)
        inner == wrapping_add(as_i32(screen_width), -(margin * 2))
        cols == Max(div_i32(inner, cell_w), 1)
        col == rem_i32(as_i32(icon_index), cols)
        row == div_i32(as_i32(icon_index), cols)
        \* a + b and a * b leave the range of i32
        add_overflows(a, b) ==
            \/ b > 0 /\ a > 2147483647 - b
            \/ b < 0 /\ a < (-2147483647 - 1) - b
        overflowed ==
            \/ add_overflows(as_i32(screen_width), -(margin * 2))
            \/ mul_overflows(col, cell_w)
            \/ add_overflows(margin, wrapping_mul(col, cell_w))
            \/ mul_overflows(row, cell_h)
            \/ add_overflows(margin, wrapping_mul(row, cell_h))
    IN IF \/ overflow_checks /\ add_overflows(as_i32(screen_width), -(margin * 2))
          \/ cell_w = 0
          \/ inner = -2147483647 - 1 /\ cell_w = -1
          \/ overflow_checks /\ overflowed
       THEN [panicked |-> TRUE,
             overflowed |-> IF cell_w = 0
                            THEN add_overflows(as_i32(screen_width), -(margin * 2))
                            ELSE (inner = -2147483647 - 1 /\ cell_w = -1) \/ overflowed,
             position |-> <<0, 0>>]
       ELSE [panicked |-> FALSE, overflowed |-> overflowed,
             position |-> <<wrapping_add(margin, wrapping_mul(col, cell_w)),
                            wrapping_add(margin, wrapping_mul(row, cell_h))>>]

\* request_position, the match on the result r of the exchange with child pid
position_response(w, icon, pid, r, dflt) ==
    IF r.ok /\ r.f.ty = "Position"
    THEN [w |-> [w EXCEPT !.procs[pid] = r.p],
          icon |-> [icon EXCEPT !.grid = <<as_u32(r.f.position[1]),
                                           as_u32(r.f.position[2])>>],
          ret |-> r.f.position, failure |-> "none"]
    ELSE [w |-> [w EXCEPT !.procs[pid] = r.p], icon |-> icon, ret |-> dflt,
          failure |-> r.f.ty]

\* request_position after send_request (s is its result)
position_sent(w, icon, pid, s, rbeh, dflt) ==
    position_response(w, icon, pid,
                      IF s.ok
                      THEN receive_response_with_timeout(s.p, rbeh, IPC_TIMEOUT)
                      ELSE [p |-> s.p, ok |-> FALSE, f |-> Plain("WriteFailed"),
                            waited |-> 0],
                      dflt)

\* request_position after ensure_process_running (e is its result)
position_ensured(e, wfail, rbeh, dflt) ==
    IF ~e.ok
    THEN [w |-> e.w, icon |-> e.icon, ret |-> dflt, failure |-> "NotRunning"]
    ELSE position_sent(e.w, e.icon, e.icon.lua,
                       send_request(e.w.procs[e.icon.lua], "Position", wfail),
                       rbeh, dflt)

\* request_position with the default position dflt computed
position_or(w, key, icon, sbeh, wfail, rbeh, dflt) ==
    IF icon.lua = 0
    THEN [w |-> w, icon |-> icon, ret |-> dflt, failure |-> "NoProcess"]
    ELSE position_ensured(ensure_process_running(w, key, icon, sbeh), wfail, rbeh, dflt)

\* DesktopIcon::request_position
request_position(w, key, icon, sbeh, wfail, rbeh, input) ==
    position_or(w, key, icon, sbeh, wfail, rbeh,
                default_position(input.screen_width, input.icon_index,
                                 input.cell_width, input.cell_height,
                                 TRUE).position)

(***************************************************************************)
(* IconDaemon.                                                             *)
(***************************************************************************)
Without(icons, path) == [q \in DOMAIN icons \ {path} |-> icons[q]]
With(icons, path, icon) == [q \in DOMAIN icons \cup {path} |->
                               IF q = path THEN icon ELSE icons[q]]

\* self.icons.insert(path, icon), for the result s of the spawn; an icon
\* the insert replaces is dropped
insert(s, path, old) ==
    IF old # 0
    THEN [s.w EXCEPT !.icons = With(s.w.icons, path, s.icon),
                     !.procs[old] = drop(s.w.procs[old], Beh("silent")).p]
    ELSE [s.w EXCEPT !.icons = With(s.w.icons, path, s.icon)]

\* add_icon, the icon made and its process spawned
spawn_icon(w, path, beh) ==
    IF beh.act = "noscript"
    THEN [w |-> w, icon |-> new_icon(path), ok |-> FALSE]
    ELSE spawn_lua_process(w, path, new_icon(path), Beh("silent"), beh)

\* add_icon without the contains_key check: the insert replaces the icon
\* the table has for the path
add_icon_unchecked(w, path, beh) ==
    IF w.hung THEN w
    ELSE insert(spawn_icon(w, path, beh), path,
                IF path \in DOMAIN w.icons THEN w.icons[path].lua ELSE 0)

\* IconDaemon::add_icon
add_icon(w, path, beh) ==
    IF w.hung \/ path \in DOMAIN w.icons THEN w
    ELSE insert(spawn_icon(w, path, beh), path, 0)

\* remove_icon that forgets the icon without killing its child
remove_icon_leak(w, path, beh) ==
    IF w.hung \/ path \notin DOMAIN w.icons THEN w
    ELSE [w EXCEPT !.icons = Without(w.icons, path)]

\* IconDaemon::remove_icon
remove_icon(w, path, beh) ==
    IF w.hung \/ path \notin DOMAIN w.icons THEN w
    ELSE kill_lua_process([w EXCEPT !.icons = Without(w.icons, path)],
                          w.icons[path], beh).w

EventKinds == {"Create", "Remove", "Modify", "Access"}

\* handle_fs_event whose Modify arm has no contains_key test
handle_fs_event_modify_unchecked(w, kind, path, kbeh, abeh) ==
    CASE kind = "Create" -> add_icon(w, path, abeh)
      [] kind = "Remove" -> remove_icon(w, path, kbeh)
      [] kind = "Modify" -> add_icon(remove_icon(w, path, kbeh), path, abeh)
      [] OTHER -> w

\* handle_fs_event that ignores Modify
handle_fs_event_ignore_modify(w, kind, path, kbeh, abeh) ==
    CASE kind = "Create" -> add_icon(w, path, abeh)
      [] kind = "Remove" -> remove_icon(w, path, kbeh)
      [] OTHER -> w

\* IconDaemon::handle_fs_event, for an event with one path
handle_fs_event(w, kind, path, kbeh, abeh) ==
    CASE kind = "Create" -> add_icon(w, path, abeh)
      [] kind = "Remove" -> remove_icon(w, path, kbeh)
      [] kind = "Modify" -> IF path \in DOMAIN w.icons
                            THEN add_icon(remove_icon(w, path, kbeh), path, abeh)
                            ELSE w
      [] OTHER -> w

\* the orders in which a set may be iterated (read_dir, HashMap::iter)
RECURSIVE Orders(_)
Orders(S) ==
    IF S = {} THEN {<<>>}
    ELSE UNION {{<<x>> \o o : o \in Orders(S \ {x})} : x \in S}

\* OsStr::to_str: None for a name that is not valid UTF-8
to_str(name) ==
    IF \E i \in 1..Len(name) : name[i] = InvalidByte THEN None ELSE Some(name)

\* scan_desktop, the test for a hidden entry:
\* path.file_name().and_then(|n| n.to_str()).map(|n| n.starts_with('.'))
\*     .unwrap_or(false)
hidden_entry(path) ==
    IF to_str(path).some THEN starts_with_dot(to_str(path).v) ELSE FALSE

\* IconDaemon::scan_desktop, the loop over the entries in the order
\* read_dir gives them
RECURSIVE scan_entries(_, _, _)
scan_entries(w, entries, abeh) ==
    IF entries = <<>> THEN w
    ELSE LET path == Head(entries) IN
         IF hidden_entry(path) THEN scan_entries(w, Tail(entries), abeh)
         ELSE scan_entries(add_icon(w, path, abeh[path]), Tail(entries), abeh)

\* IconDaemon::scan_desktop
scan_desktop(w, dir, order, abeh) == scan_entries(w, order, abeh)

\* DesktopIcon::update: Err when the path no longer exists
update(dir, path) == path \in dir

\* IconDaemon::update_icons, second loop
RECURSIVE remove_all(_, _, _)
remove_all(w, to_remove, kbeh) ==
    IF to_remove = <<>> THEN w
    ELSE remove_all(remove_icon(w, Head(to_remove), kbeh[Head(to_remove)]),
                    Tail(to_remove), kbeh)

\* IconDaemon::update_icons: the first loop collects, in the order the
\* table is iterated, the icons whose update() failed
update_icons(w, dir, order, kbeh) ==
    LET failed(path) == ~update(dir, path)
    IN remove_all(w, SelectSeq(order, failed), kbeh)

\* the LuaProcess of pid has been dropped (k is the result of the drop)
dropped(w, pid, k) == [w EXCEPT !.procs[pid] = k.p, !.hung = k.hung]

\* a DesktopIcon is dropped with the table: its LuaProcess, if any, is
\* dropped
drop_icon(w, path, beh) ==
    IF w.icons[path].lua = 0 THEN [w EXCEPT !.icons = Without(w.icons, path)]
    ELSE dropped([w EXCEPT !.icons = Without(w.icons, path)], w.icons[path].lua,
                 drop(w.procs[w.icons[path].lua], beh))

\* main: run() has returned and the IconDaemon is dropped, its icons in
\* the order the table gives them
RECURSIVE drop_daemon(_, _, _)
drop_daemon(w, order, kbeh) ==
    IF order = <<>> \/ w.hung THEN w
    ELSE drop_daemon(drop_icon(w, Head(order), kbeh[Head(order)]), Tail(order), kbeh)

(***************************************************************************)
(* The frames of the channel to a child.  A byte stream is a sequence of   *)
(* pieces [n, v]: one byte of value v (n = 1), or n bytes of JSON text     *)
(* whose values are left open (v = -1).                                    *)
(***************************************************************************)
MAX_MESSAGE_SIZE == 1024 * 1024

Byte(b) == [n |-> 1, v |-> b]
Text(n) == [n |-> n, v |-> -1]

\* u32::to_be_bytes
to_be_bytes(n) ==
    <<Byte((n \div 16777216) % 256), Byte((n \div 65536) % 256),
      Byte((n \div 256) % 256), Byte(n % 256)>>

\* u32::to_le_bytes, for n below 2^31
to_le_bytes(n) ==
    <<Byte(n % 256), Byte((n \div 256) % 256),
      Byte((n \div 65536) % 256), Byte((n \div 16777216) % 256)>>

\* u32::from_le_bytes, the value as its two 16-bit halves
from_le_bytes(b) == [hi |-> b[4] * 256 + b[3], lo |-> b[2] * 256 + b[1]]

\* len >= MAX_MESSAGE_SIZE, for a u32 as halves
at_least_max(u) ==
    \/ u.hi > MAX_MESSAGE_SIZE \div 65536
    \/ u.hi = MAX_MESSAGE_SIZE \div 65536 /\ u.lo >= MAX_MESSAGE_SIZE % 65536

\* len > MAX_MESSAGE_SIZE, for a u32 as halves
too_large(u) ==
    \/ u.hi > MAX_MESSAGE_SIZE \div 65536
    \/ u.hi = MAX_MESSAGE_SIZE \div 65536 /\ u.lo > MAX_MESSAGE_SIZE % 65536

\* as usize, for a length that is not too large
as_usize(u) == u.hi * 65536 + u.lo

\* the stdin of a child that reads its requests; broken once the child has
\* closed its end of the pipe.  result, len and before are the outcome of
\* the last send_request, the length of its serialized request and the
\* stream before it
NoStdin == [stream |-> <<>>, broken |-> FALSE, result |-> "none", len |-> 0,
            before |-> <<>>]

\* LuaProcess::send_request, the bytes it writes for a request that
\* serializes to len bytes
send_request_bytes(sin, len) ==
    LET s == [sin EXCEPT !.len = len, !.before = sin.stream] IN
    IF len > MAX_MESSAGE_SIZE THEN [s EXCEPT !.result = "too_large"]
    ELSE IF s.broken THEN [s EXCEPT !.result = "epipe"]
    ELSE [s EXCEPT !.stream = @ \o to_le_bytes(len) \o <<Text(len)>>,
                   !.result = "ok"]

\* What a child writes to its stdout while the daemon waits for a frame:
\* the four bytes of prefix, then sent bytes of body, which are the JSON
\* text of a Response or not (json).  The bytes become readable in chunks,
\* chunk i of chunks[i].n bytes chunks[i].gap ms after the one before it was
\* readable (the first: after the wait began); after the last chunk the
\* child stays silent or has closed its stdout (eof).
Chunk(gap, n) == [gap |-> gap, n |-> n]
PeerOutput(prefix, sent, json, chunks, eof) ==
    [prefix |-> prefix, sent |-> sent, json |-> json, chunks |-> chunks,
     eof |-> eof]

Min(a, b) == IF a <= b THEN a ELSE b

\* the reader of one call: the chunks not read yet, the time waited so far
\* and the bytes read into the buffer
Reader(out) ==
    [chunks |-> out.chunks, eof |-> out.eof, elapsed |-> 0, got |-> 0,
     err |-> "none"]

\* LuaProcess::read_exact_with_timeout for the need bytes the buffer still
\* lacks: poll() with timeout ms, then one read() of n bytes of the first
\* chunk
RECURSIVE read_exact_with_timeout(_, _, _)
read_exact_with_timeout(r, need, timeout) ==
    LET read(q, n) ==
            [q EXCEPT !.got = @ + n,
                      !.chunks = IF Head(@).n > n
                                 THEN <<Chunk(0, Head(@).n - n)>> \o Tail(@)
                                 ELSE Tail(@)]
    IN
    IF need = 0 THEN r
    ELSE IF r.chunks = <<>>
    THEN IF r.eof = "closed"
         THEN [r EXCEPT !.err = "hangup"]
         ELSE [r EXCEPT !.elapsed = @ + timeout, !.err = "timeout"]
    ELSE IF Head(r.chunks).gap >= timeout
    THEN [r EXCEPT !.elapsed = @ + timeout, !.err = "timeout"]
    ELSE read_exact_with_timeout(
             read([r EXCEPT !.elapsed = @ + Head(r.chunks).gap],
                  Min(Head(r.chunks).n, need)),
             need - Min(Head(r.chunks).n, need), timeout)

\* what one call of receive_response_with_timeout was given and what it
\* did: res is "ok" or the error, elapsed the time the call took, body the
\* bytes of body it read
Received(out, timeout, res, r, body) ==
    [out |-> out, timeout |-> timeout, res |-> res, elapsed |-> r.elapsed,
     body |-> body]

\* the read of the body, and Response::deserialize of its len bytes
receive_data(out, timeout, len, r) ==
    IF r.err # "none" THEN Received(out, timeout, "data:" \o r.err, r, r.got)
    ELSE IF out.json /\ out.sent = len THEN Received(out, timeout, "ok", r, r.got)
    ELSE Received(out, timeout, "deserialize", r, r.got)

\* the read of the length prefix, and the cap
receive_length(out, timeout, len, r) ==
    IF r.err # "none" THEN Received(out, timeout, "length:" \o r.err, r, 0)
    ELSE IF too_large(len) THEN Received(out, timeout, "too_large", r, 0)
    ELSE receive_data(out, timeout, as_usize(len),
                      read_exact_with_timeout([r EXCEPT !.got = 0],
                                              as_usize(len), timeout))

\* LuaProcess::receive_response_with_timeout, the bytes it reads
receive_response_bytes(out, timeout) ==
    receive_length(out, timeout, from_le_bytes(out.prefix),
                   read_exact_with_timeout(Reader(out), 4, timeout))

NoStdout == Received(PeerOutput(<<0, 0, 0, 0>>, 0, FALSE, <<>>, "silent"), 0,
                     "none", Reader([chunks |-> <<>>, eof |-> "silent"]), 0)

(***************************************************************************)
(* The JSON encoding of the messages (serde_json with the derived          *)
(* Serialize and Deserialize).  A JSON value is a record tagged j; a       *)
(* floating-point value is named by its decimal text, or is NaN, inf or    *)
(* -inf; a decoder yields Ok(v) or Err.                                    *)
(***************************************************************************)
JNull == [j |-> "null"]
JBool(b) == [j |-> "bool", b |-> b]
JInt(n) == [j |-> "int", n |-> n]
JFloat(f) == [j |-> "float", f |-> f]
JStr(s) == [j |-> "string", s |-> s]
JArr(a) == [j |-> "array", a |-> a]
JObj(o) == [j |-> "object", o |-> o]

Ok(v) == [ok |-> TRUE, v |-> v]
Err == [ok |-> FALSE]

\* f32::is_finite, f64::is_finite
is_finite(f) == f \notin {"NaN", "inf", "-inf"}

\* a field of an object; serde takes a missing field as null
field(o, k) == IF k \in DOMAIN o THEN o[k] ELSE JNull

\* the primitive encoders and decoders
\* serde_json writes a float that is not finite as null
ser_float(f) == IF is_finite(f) THEN JFloat(f) ELSE JNull
de_float(j) ==
    IF j.j = "float" THEN Ok(j.f)
    ELSE IF j.j = "int" THEN Ok(ToString(j.n) \o ".0")
    ELSE Err
de_uint(j) == IF j.j = "int" /\ j.n >= 0 THEN Ok(j.n) ELSE Err
de_int(j) == IF j.j = "int" THEN Ok(j.n) ELSE Err
de_bool(j) == IF j.j = "bool" THEN Ok(j.b) ELSE Err
de_string(j) == IF j.j = "string" THEN Ok(j.s) ELSE Err

\* Option<T>: None is null; d is a value of T that None carries here
none(d) == [some |-> FALSE, v |-> d]
ser_option(o, ser(_)) == IF o.some THEN ser(o.v) ELSE JNull
de_option(j, de(_), d) ==
    IF j.j = "null" THEN Ok(none(d))
    ELSE IF de(j).ok THEN Ok(Some(de(j).v)) ELSE Err

\* Vec<String>
de_strings(j) ==
    IF j.j = "array" /\ \A i \in 1..Len(j.a) : j.a[i].j = "string"
    THEN Ok([i \in 1..Len(j.a) |-> j.a[i].s]) ELSE Err

\* #[serde(tag = "type")]: the variant's name as the field "type" beside the
\* variant's fields
tagged(variant, fields) == JObj(("type" :> JStr(variant)) @@ fields)
is_tagged(j) == j.j = "object" /\ "type" \in DOMAIN j.o /\ j.o["type"].j = "string"
NoFields == [k \in {} |-> JNull]

\* Request::serialize(IpcEncoding::Json), as the JSON value of the text.
\* A unit variant of IconType and of IconEvent is its name, Custom(s) is
\* {"Custom": s}, a struct variant is {"Click": {...}} or {"Drop": {...}}.
serialize_request(m) ==
    LET ser_icon_type(t) ==
            IF t.variant = "Custom" THEN JObj("Custom" :> JStr(t.s))
            ELSE JStr(t.variant)
        ser_icon_metadata(d) ==
            JObj(("path" :> JStr(d.path)) @@ ("name" :> JStr(d.name))
                 @@ ("mime_type" :> ser_option(d.mime_type, JStr))
                 @@ ("is_directory" :> JBool(d.is_directory))
                 @@ ("size" :> ser_option(d.size, JInt))
                 @@ ("width" :> JInt(d.width)) @@ ("height" :> JInt(d.height))
                 @@ ("icon_type" :> ser_icon_type(d.icon_type))
                 @@ ("selected" :> JBool(d.selected))
                 @@ ("hovered" :> JBool(d.hovered)))
        ser_render_context(c) ==
            JObj(("canvas_width" :> JInt(c.canvas_width))
                 @@ ("canvas_height" :> JInt(c.canvas_height))
                 @@ ("device_pixel_ratio" :> ser_float(c.device_pixel_ratio)))
        ser_position_input(i) ==
            JObj(("screen_width" :> JInt(i.screen_width))
                 @@ ("screen_height" :> JInt(i.screen_height))
                 @@ ("icon_count" :> JInt(i.icon_count))
                 @@ ("icon_index" :> JInt(i.icon_index))
                 @@ ("cell_width" :> ser_option(i.cell_width, JInt))
                 @@ ("cell_height" :> ser_option(i.cell_height, JInt)))
        ser_icon_event(e) ==
            IF e.variant = "Click"
            THEN JObj("Click" :> JObj(("button" :> JInt(e.button))
                                      @@ ("x" :> ser_float(e.x))
                                      @@ ("y" :> ser_float(e.y))))
            ELSE IF e.variant = "Drop"
            THEN JObj("Drop" :> JObj("paths" :>
                          JArr([i \in 1..Len(e.paths) |-> JStr(e.paths[i])])))
            ELSE JStr(e.variant)
    IN CASE m.variant = "Handshake" -> tagged("Handshake", "version" :> JInt(m.version))
         [] m.variant = "Render" ->
               tagged("Render", ("metadata" :> ser_icon_metadata(m.metadata))
                                @@ ("context" :> ser_render_context(m.context)))
         [] m.variant = "Event" -> tagged("Event", "event" :> ser_icon_event(m.event))
         [] m.variant = "Position" ->
               tagged("Position", "input" :> ser_position_input(m.input))
         [] m.variant = "Shutdown" -> tagged("Shutdown", NoFields)

\* Request::deserialize(IpcEncoding::Json)
deserialize_request(j) ==
    LET de_icon_type(t) ==
            IF t.j = "string" /\ t.s \in {"File", "Directory", "Application", "Symlink"}
            THEN Ok([variant |-> t.s, s |-> ""])
            ELSE IF t.j = "object" /\ DOMAIN t.o = {"Custom"} /\ t.o["Custom"].j = "string"
            THEN Ok([variant |-> "Custom", s |-> t.o["Custom"].s])
            ELSE Err
        icon_metadata_of(path, name, mime_type, is_directory, size, width,
                         height, icon_type, selected, hovered) ==
            IF /\ path.ok /\ name.ok /\ mime_type.ok /\ is_directory.ok /\ size.ok
               /\ width.ok /\ height.ok /\ icon_type.ok /\ selected.ok /\ hovered.ok
            THEN Ok([path |-> path.v, name |-> name.v, mime_type |-> mime_type.v,
                     is_directory |-> is_directory.v, size |-> size.v,
                     width |-> width.v, height |-> height.v,
                     icon_type |-> icon_type.v, selected |-> selected.v,
                     hovered |-> hovered.v])
            ELSE Err
        de_icon_metadata(d) ==
            IF d.j # "object" THEN Err
            ELSE icon_metadata_of(
                     de_string(field(d.o, "path")), de_string(field(d.o, "name")),
                     de_option(field(d.o, "mime_type"), de_string, ""),
                     de_bool(field(d.o, "is_directory")),
                     de_option(field(d.o, "size"), de_uint, 0),
                     de_uint(field(d.o, "width")), de_uint(field(d.o, "height")),
                     de_icon_type(field(d.o, "icon_type")),
                     de_bool(field(d.o, "selected")), de_bool(field(d.o, "hovered")))
        render_context_of(w, h, r) ==
            IF w.ok /\ h.ok /\ r.ok
            THEN Ok([canvas_width |-> w.v, canvas_height |-> h.v,
                     device_pixel_ratio |-> r.v])
            ELSE Err
        de_render_context(c) ==
            IF c.j # "object" THEN Err
            ELSE render_context_of(de_uint(field(c.o, "canvas_width")),
                                   de_uint(field(c.o, "canvas_height")),
                                   de_float(field(c.o, "device_pixel_ratio")))
        position_input_of(sw, sh, n, i, cw, ch) ==
            IF sw.ok /\ sh.ok /\ n.ok /\ i.ok /\ cw.ok /\ ch.ok
            THEN Ok([screen_width |-> sw.v, screen_height |-> sh.v,
                     icon_count |-> n.v, icon_index |-> i.v,
                     cell_width |-> cw.v, cell_height |-> ch.v])
            ELSE Err
        de_position_input(i) ==
            IF i.j # "object" THEN Err
            ELSE position_input_of(
                     de_uint(field(i.o, "screen_width")),
                     de_uint(field(i.o, "screen_height")),
                     de_uint(field(i.o, "icon_count")),
                     de_uint(field(i.o, "icon_index")),
                     de_option(field(i.o, "cell_width"), de_uint, 0),
                     de_option(field(i.o, "cell_height"), de_uint, 0))
        click_of(button, x, y) ==
            IF button.ok /\ x.ok /\ y.ok
            THEN Ok([variant |-> "Click", button |-> button.v, x |-> x.v,
                     y |-> y.v, paths |-> <<>>])
            ELSE Err
        drop_of(paths) ==
            IF paths.ok
            THEN Ok([variant |-> "Drop", button |-> 0, x |-> "0.0", y |-> "0.0",
                     paths |-> paths.v])
            ELSE Err
        de_icon_event(e) ==
            IF e.j = "string"
               /\ e.s \in {"HoverEnter", "HoverExit", "Selected", "Deselected"}
            THEN Ok([variant |-> e.s, button |-> 0, x |-> "0.0", y |-> "0.0",
                     paths |-> <<>>])
            ELSE IF e.j = "object" /\ DOMAIN e.o = {"Click"} /\ e.o["Click"].j = "object"
            THEN click_of(de_uint(field(e.o["Click"].o, "button")),
                          de_float(field(e.o["Click"].o, "x")),
                          de_float(field(e.o["Click"].o, "y")))
            ELSE IF e.j = "object" /\ DOMAIN e.o = {"Drop"} /\ e.o["Drop"].j = "object"
            THEN drop_of(de_strings(field(e.o["Drop"].o, "paths")))
            ELSE Err
        handshake_of(version) ==
            IF version.ok THEN Ok([variant |-> "Handshake", version |-> version.v])
            ELSE Err
        render_of(metadata, context) ==
            IF metadata.ok /\ context.ok
            THEN Ok([variant |-> "Render", metadata |-> metadata.v,
                     context |-> context.v])
            ELSE Err
        event_of(event) ==
            IF event.ok THEN Ok([variant |-> "Event", event |-> event.v]) ELSE Err
        position_of(input) ==
            IF input.ok THEN Ok([variant |-> "Position", input |-> input.v]) ELSE Err
    IN IF ~is_tagged(j) THEN Err
       ELSE CASE j.o["type"].s = "Handshake" ->
                    handshake_of(de_uint(field(j.o, "version")))
              [] j.o["type"].s = "Render" ->
                    render_of(de_icon_metadata(field(j.o, "metadata")),
                              de_render_context(field(j.o, "context")))
              [] j.o["type"].s = "Event" -> event_of(de_icon_event(field(j.o, "event")))
              [] j.o["type"].s = "Position" ->
                    position_of(de_position_input(field(j.o, "input")))
              [] j.o["type"].s = "Shutdown" -> Ok([variant |-> "Shutdown"])
              [] OTHER -> Err

\* Response::serialize(IpcEncoding::Json); the draw commands of Render are
\* an array
serialize_response(m) ==
    LET ser_position(p) == JObj(("x" :> JInt(p.x)) @@ ("y" :> JInt(p.y)))
        ser_event_action(a) ==
            JObj(("action" :> JStr(a.action))
                 @@ ("payload" :> ser_option(a.payload, JStr)))
    IN CASE m.variant = "HandshakeAck" ->
               tagged("HandshakeAck", ("version" :> JInt(m.version))
                                      @@ ("success" :> JBool(m.success)))
         [] m.variant = "Render" -> tagged("Render", "commands" :> JArr(m.commands))
         [] m.variant = "Event" ->
               tagged("Event", ("handled" :> JBool(m.handled))
                               @@ ("action" :> ser_option(m.action, ser_event_action)))
         [] m.variant = "Position" ->
               tagged("Position", "position" :> ser_position(m.position))
         [] m.variant = "Error" -> tagged("Error", "message" :> JStr(m.message))
         [] m.variant = "ShutdownAck" -> tagged("ShutdownAck", NoFields)

\* Response::deserialize(IpcEncoding::Json)
deserialize_response(j) ==
    LET position_of(x, y) ==
            IF x.ok /\ y.ok THEN Ok([x |-> x.v, y |-> y.v]) ELSE Err
        de_position(p) ==
            IF p.j # "object" THEN Err
            ELSE position_of(de_int(field(p.o, "x")), de_int(field(p.o, "y")))
        event_action_of(action, payload) ==
            IF action.ok /\ payload.ok
            THEN Ok([action |-> action.v, payload |-> payload.v]) ELSE Err
        de_event_action(a) ==
            IF a.j # "object" THEN Err
            ELSE event_action_of(de_string(field(a.o, "action")),
                                 de_option(field(a.o, "payload"), de_string, ""))
        handshake_ack_of(version, success) ==
            IF version.ok /\ success.ok
            THEN Ok([variant |-> "HandshakeAck", version |-> version.v,
                     success |-> success.v])
            ELSE Err
        render_of(commands) ==
            IF commands.j = "array" /\ commands.a = <<>>
            THEN Ok([variant |-> "Render", commands |-> <<>>]) ELSE Err
        event_of(handled, action) ==
            IF handled.ok /\ action.ok
            THEN Ok([variant |-> "Event", handled |-> handled.v, action |-> action.v])
            ELSE Err
        position_response_of(position) ==
            IF position.ok THEN Ok([variant |-> "Position", position |-> position.v])
            ELSE Err
        error_of(message) ==
            IF message.ok THEN Ok([variant |-> "Error", message |-> message.v]) ELSE Err
    IN IF ~is_tagged(j) THEN Err
       ELSE CASE j.o["type"].s = "HandshakeAck" ->
                    handshake_ack_of(de_uint(field(j.o, "version")),
                                     de_bool(field(j.o, "success")))
              [] j.o["type"].s = "Render" -> render_of(field(j.o, "commands"))
              [] j.o["type"].s = "Event" ->
                    event_of(de_bool(field(j.o, "handled")),
                             de_option(field(j.o, "action"), de_event_action,
                                       [action |-> "", payload |-> none("")]))
              [] j.o["type"].s = "Position" ->
                    position_response_of(de_position(field(j.o, "position")))
              [] j.o["type"].s = "Error" -> error_of(de_string(field(j.o, "message")))
              [] j.o["type"].s = "ShutdownAck" -> Ok([variant |-> "ShutdownAck"])
              [] OTHER -> Err

\* a message, its encoding and what the encoding decodes to
NoMessage == [family |-> "none"]
RoundTrip(family, m, json, decoded) ==
    [family |-> family, m |-> m, json |-> json, decoded |-> decoded]
request_round_trip(m, json) == RoundTrip("Request", m, json, deserialize_request(json))
response_round_trip(m, json) == RoundTrip("Response", m, json, deserialize_response(json))

(***************************************************************************)
(* The launcher's command line.  A path is its text with raw set when the  *)
(* text is followed by a byte that is not valid UTF-8; a script path is    *)
(* the path with its parent directory (Path::parent).  The command is      *)
(* built as the sequence of its options, each with its operands.           *)
(***************************************************************************)
PathBuf(text, raw) == [text |-> text, raw |-> raw]

\* Path::to_string_lossy: an invalid byte becomes U+FFFD
to_string_lossy(path) == IF path.raw THEN path.text \o "<U+FFFD>" ELSE path.text

\* Path::exists, Path::is_symlink in the filesystem fs
exists(fs, path) == path \in fs.exists
is_symlink(fs, path) == path \in fs.symlinks

\* the configured paths that exist, each bound onto itself
RECURSIVE binds(_, _, _)
binds(fs, flag, paths) ==
    IF paths = <<>> THEN <<>>
    ELSE (IF exists(fs, Head(paths))
          THEN <<<<flag, to_string_lossy(Head(paths)), to_string_lossy(Head(paths))>>>>
          ELSE <<>>)
         \o binds(fs, flag, Tail(paths))

setenvs(env_vars) ==
    [i \in 1..Len(env_vars) |-> <<"--setenv", env_vars[i][1], env_vars[i][2]>>]

essential(icon_script_path) ==
    <<<<"--setenv", "PATH", "/usr/bin:/bin">>, <<"--setenv", "HOME", "/tmp">>,
      <<"--setenv", "LANG", "C.UTF-8">>,
      <<"--setenv", "CVH_ICON_SCRIPT", to_string_lossy(icon_script_path.path)>>>>

\* the caller's variables set before the essential ones
environment_caller_first(options, icon_script_path) ==
    <<<<"--clearenv">>>> \o setenvs(options.env_vars) \o essential(icon_script_path)

\* the environment set first and cleared last
environment_cleared_last(options, icon_script_path) ==
    essential(icon_script_path) \o setenvs(options.env_vars) \o <<<<"--clearenv">>>>

\* the environment: cleared, then the essential variables, then the
\* caller's
environment(options, icon_script_path) ==
    <<<<"--clearenv">>>> \o essential(icon_script_path) \o setenvs(options.env_vars)

\* LuaProcess::build_bwrap_command, the options after "bwrap": the
\* namespaces to unshare; /usr; /lib and /lib64, each a symlink into /usr,
\* or bound, or absent; the virtual filesystems; the configured paths; the
\* directories of the handler script and of the widget script; the working
\* directory; the environment; the interpreter
build_bwrap_command(fs, options, handler_path, icon_script_path) ==
    LET unshare ==
            IF options.allow_network
            THEN <<<<"--unshare-user">>, <<"--unshare-pid">>, <<"--unshare-uts">>,
                   <<"--unshare-cgroup">>>>
            ELSE <<<<"--unshare-all">>>>
        lib(name, target) ==
            IF is_symlink(fs, PathBuf(name, FALSE))
            THEN <<<<"--symlink", target, name>>>>
            ELSE IF exists(fs, PathBuf(name, FALSE))
            THEN <<<<"--ro-bind", name, name>>>>
            ELSE <<>>
        script_dirs ==
            (IF handler_path.parent.some
             THEN binds(fs, "--ro-bind", <<handler_path.parent.v>>) ELSE <<>>)
            \o (IF /\ icon_script_path.parent.some
                   /\ (~handler_path.parent.some
                       \/ handler_path.parent.v # icon_script_path.parent.v)
                THEN binds(fs, "--ro-bind", <<icon_script_path.parent.v>>)
                ELSE <<>>)
        chdir ==
            IF options.work_dir.some
            THEN <<<<"--chdir", to_string_lossy(options.work_dir.v)>>>> ELSE <<>>
    IN <<<<"--die-with-parent">>, <<"--new-session">>>>
       \o unshare
       \o <<<<"--ro-bind", "/usr", "/usr">>>>
       \o lib("/lib", "usr/lib") \o lib("/lib64", "usr/lib64")
       \o <<<<"--symlink", "usr/bin", "/bin">>, <<"--symlink", "usr/sbin", "/sbin">>,
            <<"--proc", "/proc">>, <<"--dev", "/dev">>, <<"--tmpfs", "/tmp">>,
            <<"--tmpfs", "/run">>, <<"--tmpfs", "/home">>>>
       \o binds(fs, "--ro-bind", options.read_only_paths)
       \o binds(fs, "--bind", options.read_write_paths)
       \o script_dirs
       \o chdir
       \o environment(options, icon_script_path)
       \o <<<<"--", "lua", to_string_lossy(handler_path.path)>>>>

\* BubblewrapSandbox::build_command, the options after "bwrap": the
\* caller's variables, then --clearenv, then the essential variables
build_command(fs, options, program, args) ==
    LET unshare ==
            IF options.allow_network
            THEN <<<<"--unshare-user">>, <<"--unshare-pid">>, <<"--unshare-uts">>,
                   <<"--unshare-cgroup">>>>
            ELSE <<<<"--unshare-all">>>>
        lib(dir, target) ==
            IF is_symlink(fs, PathBuf(dir, FALSE)) THEN <<<<"--symlink", target, dir>>>>
            ELSE IF exists(fs, PathBuf(dir, FALSE)) THEN <<<<"--ro-bind", dir, dir>>>>
            ELSE <<>>
        chdir ==
            IF options.work_dir.some
            THEN <<<<"--chdir", to_string_lossy(options.work_dir.v)>>>> ELSE <<>>
    IN <<<<"--die-with-parent">>, <<"--new-session">>>>
       \o unshare
       \o <<<<"--ro-bind", "/usr", "/usr">>>>
       \o lib("/lib", "usr/lib") \o lib("/lib64", "usr/lib64")
       \o <<<<"--symlink", "usr/bin", "/bin">>, <<"--symlink", "usr/sbin", "/sbin">>,
            <<"--proc", "/proc">>, <<"--dev", "/dev">>, <<"--tmpfs", "/tmp">>,
            <<"--tmpfs", "/run">>, <<"--tmpfs", "/home">>>>
       \o binds(fs, "--ro-bind", options.read_only_paths)
       \o binds(fs, "--bind", options.read_write_paths)
       \o chdir
       \o setenvs(options.env_vars)
       \o <<<<"--clearenv">>,
            <<"--setenv", "PATH", "/usr/bin:/bin">>, <<"--setenv", "HOME", "/tmp">>,
            <<"--setenv", "LANG", "C.UTF-8">>>>
       \o <<<<"--", program>> \o args>>

\* Command::get_args: the argument vector
RECURSIVE get_args(_)
get_args(groups) ==
    IF groups = <<>> THEN <<>> ELSE Head(groups) \o get_args(Tail(groups))

\* the indices of the argument vector that hold an option (the others hold
\* an option's operands, or what follows "--")
RECURSIVE option_indices(_, _)
option_indices(groups, at) ==
    IF groups = <<>> THEN {}
    ELSE {at} \cup option_indices(Tail(groups), at + Len(Head(groups)))

\* one command built: what it was built from, its arguments and the
\* indices of its options
NoCommand == [built |-> FALSE]
Built(fs, options, groups) ==
    [built |-> TRUE, fs |-> fs, options |-> options, args |-> get_args(groups),
     opts |-> option_indices(groups, 1)]

\* one default position: the arguments of request_position on a session
\* without a child (lua_process is None, so that default_position returns
\* for it), and the outcome r of default_position
NoLayout == [done |-> FALSE]
Laid(screen_width, icon_index, cell_width, cell_height, r) ==
    [done |-> TRUE, screen_width |-> screen_width, icon_index |-> icon_index,
     cell_width |-> cell_width, cell_height |-> cell_height,
     panicked |-> r.panicked, overflowed |-> r.overflowed, position |-> r.position]

(***************************************************************************)
(* The state.                                                              *)
(*   scanned  "no" until IconDaemon::new has run scan_desktop, then        *)
(*            "empty" (the scan made no session) or "some", and "stopped"  *)
(*            when run() has returned and the daemon was dropped           *)
(*   last     the last handler the daemon ran, its inputs and its result   *)
(*   stdin    the pipe to a child that requests are sent to                *)
(*   stdout   one wait for a frame of a child, and what it read            *)
(*   message  one message encoded and decoded again                        *)
(*   command  one command line built for a child                           *)
(*   layout   one default position computed for a session without a child  *)
(*   desk     the watched directory as it is (dir), whether the watcher    *)
(*            watches it (watching), and the events the watcher has sent   *)
(*            that run() has not handled (pending)                         *)
(* The watched directory changes behind the daemon's back at any time, so  *)
(* its content is an input of the two handlers that read it.               *)
(***************************************************************************)
VARIABLES icons, procs, nextPid, hung, scanned, last, stdin, stdout, message,
          command, layout, desk

vars == <<icons, procs, nextPid, hung, scanned, last, stdin, stdout, message,
          command, layout, desk>>

\* the channel operations of the second part are not running
Channels == UNCHANGED <<stdin, stdout, message, command, layout>>
Idle == Channels /\ UNCHANGED desk
\* the daemon of the first part is not running
Daemon == UNCHANGED <<icons, procs, nextPid, hung, scanned, last, desk>>

\* a LuaProcess that was dropped is gone: the handlers see only that the
\* child was reaped
Gone == [NoProc EXCEPT !.st = "reaped"]
Forget(p) == IF p.st = "reaped" /\ ~p.open THEN Gone ELSE p

World == [icons |-> icons, procs |-> [q \in Pids |-> Forget(procs[q])],
          nextPid |-> nextPid, hung |-> hung, attempts |-> 0]

NoLast ==
    [op |-> "none", kind |-> "none", path |-> <<>>, cmds |-> <<>>,
     pos |-> <<0, 0>>, dflt |-> <<0, 0>>, failure |-> "none", attempts |-> 0,
     after |-> 0, hadChild |-> FALSE, dir |-> {},
     crc |-> 0, cpath |-> <<>>, pid1 |-> 0]

Ran(op, kind, path, w) ==
    [NoLast EXCEPT !.op = op, !.kind = kind, !.path = path, !.attempts = w.attempts]

Apply(w) ==
    /\ w.nextPid <= MaxPid + 1
    /\ icons' = w.icons
    /\ procs' = w.procs
    /\ nextPid' = w.nextPid
    /\ hung' = w.hung

Commit(w) == Apply(w) /\ Idle

\* a handler has returned with the daemon as w
Handled(op, kind, path, w) ==
    /\ Commit(w)
    /\ last' = Ran(op, kind, path, w)

\* How far the events handled last are into Create(p), Remove(p), Create(p)
\* on an empty table (crc, with p as cpath and the child the first Create
\* gave the icon as pid1), when the event kind on path is handled next
Progress(kind, path) ==
    IF kind = "Create" /\ last.crc = 2 /\ path = last.cpath THEN 3
    ELSE IF kind = "Remove" /\ last.crc = 1 /\ path = last.cpath THEN 2
    ELSE IF kind = "Create" /\ DOMAIN icons = {} THEN 1
    ELSE 0

\* handle_fs_event has returned with the daemon as w
Evented(kind, path, w) ==
    /\ Commit(w)
    /\ last' = [Ran("event", kind, path, w) EXCEPT
                  !.crc = Progress(kind, path),
                  !.cpath = IF Progress(kind, path) = 0 THEN <<>> ELSE path,
                  !.pid1 = IF Progress(kind, path) = 1 THEN w.icons[path].lua
                           ELSE IF Progress(kind, path) = 0 THEN 0
                           ELSE last.pid1]

\* the initial scan of a directory with the entries dir has returned with
\* the daemon as w
Scanned(dir, w) ==
    /\ Commit(w)
    /\ last' = [Ran("scan", "none", <<>>, w) EXCEPT !.dir = dir]
    /\ scanned' = IF DOMAIN w.icons = {} THEN "empty" ELSE "some"

\* request_render on the icon of path has returned r
Rendered(path, r) ==
    /\ Commit([r.w EXCEPT !.icons[path] = r.icon])
    /\ last' = [NoLast EXCEPT !.op = "render", !.path = path,
                              !.attempts = r.w.attempts, !.cmds = r.ret,
                              !.failure = r.failure, !.after = r.after,
                              !.hadChild = icons[path].lua # 0]

\* request_position on the icon of path has returned r
Positioned(path, input, r) ==
    /\ Commit([r.w EXCEPT !.icons[path] = r.icon])
    /\ last' = [NoLast EXCEPT !.op = "position", !.path = path,
                              !.attempts = r.w.attempts, !.pos = r.ret,
                              !.failure = r.failure,
                              !.dflt = default_position(input.screen_width,
                                           input.icon_index, input.cell_width,
                                           input.cell_height, TRUE).position,
                              !.hadChild = icons[path].lua # 0]

\* kill_lua_process on the icon of path has returned r
Killed(path, r) ==
    Handled("kill", "none", path, [r.w EXCEPT !.icons[path] = r.icon])

\* the behaviours that can make a difference to a handler: a child that is
\* not running has none, a handler that spawns nothing meets no new child
Running(path) ==
    /\ path \in DOMAIN icons
    /\ icons[path].lua # 0
    /\ procs[icons[path].lua].st = "running"
\* find_script_for_icon looks for the widget script of the icon's type
AddChoices(path) ==
    IF determine_type(path) \in ScriptTypes THEN AddBeh ELSE {Beh("noscript")}
KillChoices(path) == IF Running(path) THEN KillBeh ELSE {Beh("silent")}
RestartChoices(path) ==
    IF path \in DOMAIN icons /\ icons[path].lua # 0 /\ ~Running(path)
    THEN SpawnBeh ELSE {Beh("silent")}
\* the daemon sends Render and Position requests while fewer than
\* MaxOutstanding replies are owed
RECURSIVE Owed(_)
Owed(S) == IF S = {} THEN 0
           ELSE LET q == CHOOSE x \in S : TRUE IN Outstanding(procs[q]) + Owed(S \ {q})
Bounded == Owed(Pids) < MaxOutstanding

\* IconDaemon::new, the struct literal
Init ==
    /\ icons = <<>>
    /\ procs = [q \in Pids |-> NoProc]
    /\ nextPid = 1
    /\ hung = FALSE
    /\ scanned = "no"
    /\ last = NoLast
    /\ stdin = NoStdin
    /\ stdout = NoStdout
    /\ message = NoMessage
    /\ command = NoCommand
    /\ layout = NoLayout
    /\ desk = [dir |-> {}, watching |-> FALSE, pending |-> <<>>]

Ready == scanned \notin {"no", "stopped"} /\ ~hung

\* IconDaemon::new, the initial scan of a directory whose entries are
\* among entries
ScanOf(entries) ==
    /\ scanned = "no"
    /\ \E dir \in SUBSET entries :
       \E order \in Orders(dir),
          abeh \in {a \in [dir -> AddBeh] :
                      \A path \in dir :
                         a[path] \in IF hidden_entry(path) THEN {Beh("noscript")}
                                     ELSE AddChoices(path)} :
          Scanned(dir, scan_desktop(World, dir, order, abeh))

ScanDesktop == ScanOf(Paths)

\* the initial scan of a directory that may hold a name that is not UTF-8
ScanDirectory == ScanOf(Entries)

\* run: one pending filesystem event is handled
HandleFsEvent ==
    /\ Ready
    /\ \E kind \in EventKinds, path \in Paths :
       \E kbeh \in IF kind \in {"Remove", "Modify"} THEN KillChoices(path)
                   ELSE {Beh("silent")},
          abeh \in IF \/ kind = "Create" /\ path \notin DOMAIN icons
                      \/ kind = "Modify" /\ path \in DOMAIN icons
                   THEN AddChoices(path) ELSE {Beh("silent")} :
          Evented(kind, path, handle_fs_event(World, kind, path, kbeh, abeh))
    /\ UNCHANGED scanned

\* run: the timer fired
UpdateIcons ==
    /\ Ready
    /\ \E dir \in SUBSET DOMAIN icons :
       \E order \in Orders(DOMAIN icons),
          kbeh \in {k \in [DOMAIN icons -> KillBeh] :
                      \A path \in DOMAIN icons :
                         k[path] \in IF update(dir, path) THEN {Beh("silent")}
                                     ELSE KillChoices(path)} :
          Handled("tick", "none", <<>>, update_icons(World, dir, order, kbeh))
    /\ UNCHANGED scanned

\* render_all_icons, for one icon
RequestRender ==
    /\ Ready
    /\ \E path \in DOMAIN icons :
       \E sbeh \in RestartChoices(path), wfail \in BOOLEAN,
          rbeh \in IF icons[path].lua # 0 THEN RenderBeh ELSE {Beh("silent")} :
          /\ Bounded
          /\ wfail => icons[path].lua # 0
          /\ Rendered(path, request_render(World, path, icons[path], sbeh, wfail, rbeh))
    /\ UNCHANGED scanned

PositionInputs ==
    { [screen_width |-> as_u32(1920), screen_height |-> as_u32(1080),
       icon_count |-> as_u32(25), icon_index |-> as_u32(20),
       cell_width |-> none(as_u32(0)), cell_height |-> none(as_u32(0))] }

\* position_all_icons, for one icon
RequestPosition ==
    /\ Ready
    /\ \E path \in DOMAIN icons, input \in PositionInputs :
       \E sbeh \in RestartChoices(path), wfail \in BOOLEAN,
          rbeh \in IF icons[path].lua # 0 THEN PositionBeh ELSE {Beh("silent")} :
          /\ Bounded
          /\ wfail => icons[path].lua # 0
          /\ Positioned(path, input,
                        request_position(World, path, icons[path], sbeh, wfail, rbeh,
                                         input))
    /\ UNCHANGED scanned

\* get_icon_mut(path), then kill_lua_process on the icon
KillLuaProcess ==
    /\ Ready
    /\ \E path \in DOMAIN icons :
       \E kbeh \in KillChoices(path) :
          Killed(path, kill_lua_process(World, icons[path], kbeh))
    /\ UNCHANGED scanned

\* get_icon_mut(path), then set_selected on the icon
SetSelected ==
    /\ Ready
    /\ \E path \in DOMAIN icons, selected \in BOOLEAN :
          Handled("select", "none", path,
                  [World EXCEPT !.icons[path] = set_selected(icons[path], selected)])
    /\ UNCHANGED scanned

\* get_icon_mut(path), then on_click on the icon
OnClick ==
    /\ Ready
    /\ \E path \in DOMAIN icons, button \in 0..4 :
          Handled("click", on_click(icons[path], button).action, path,
                  [World EXCEPT !.icons[path] = on_click(icons[path], button).icon])
    /\ UNCHANGED scanned

\* get_icon_mut(path), then on_double_click on the icon
OnDoubleClick ==
    /\ Ready
    /\ \E path \in DOMAIN icons :
          Handled("double_click", on_double_click(icons[path]).action, path,
                  [World EXCEPT !.icons[path] = on_double_click(icons[path]).icon])
    /\ UNCHANGED scanned

\* get_icon_mut(path), then set_hovered on the icon
SetHovered ==
    /\ Ready
    /\ \E path \in DOMAIN icons, hovered \in BOOLEAN :
          Handled("hover", "none", path,
                  [World EXCEPT !.icons[path] = set_hovered(icons[path], hovered)])
    /\ UNCHANGED scanned

\* the events the loop has received and not yet handled when it sees that
\* the watcher's channel is closed: none, or one
NoEvent == [kind |-> "none", path |-> <<>>]
PendingEvents == {NoEvent} \cup {[kind |-> k, path |-> p] : k \in EventKinds, p \in Paths}

\* run, the iteration that sees the channel closed, without the handling of
\* the events received
drain_nothing(w, ev, kbeh, abeh) == w

\* run, the iteration that sees the channel closed: pending_events is
\* drained and each event handled
drain(w, ev, kbeh, abeh) ==
    IF ev.kind = "none" THEN w ELSE handle_fs_event(w, ev.kind, ev.path, kbeh, abeh)

\* the behaviours that make a difference to the drop of the icon of path
\* in w
DropChoices(w, path) ==
    IF w.icons[path].lua # 0 /\ w.procs[w.icons[path].lua].st = "running"
    THEN KillBeh ELSE {Beh("silent")}

\* run has left its loop after the event ev with the daemon as w, and main
\* drops the daemon
Left(ev, w) ==
    \E order \in Orders(DOMAIN w.icons),
       kbeh \in {k \in [DOMAIN w.icons -> KillBeh] :
                   \A path \in DOMAIN w.icons : k[path] \in DropChoices(w, path)} :
       Handled("stop", ev.kind, ev.path, drop_daemon(w, order, kbeh))

\* run: the watcher's channel is closed; the events received (one of
\* pending) are handled, the loop is left, and main drops the daemon
StopAfter(pending) ==
    /\ Ready
    /\ \E ev \in pending :
       \E kbeh \in IF ev.kind \in {"Remove", "Modify"} THEN KillChoices(ev.path)
                   ELSE {Beh("silent")},
          abeh \in IF \/ ev.kind = "Create" /\ ev.path \notin DOMAIN icons
                      \/ ev.kind = "Modify" /\ ev.path \in DOMAIN icons
                   THEN AddChoices(ev.path) ELSE {Beh("silent")} :
          Left(ev, drain(World, ev, kbeh, abeh))
    /\ scanned' = "stopped"

\* the channel is closed when no event is pending
Stop == StopAfter({NoEvent})

\* the channel is closed with or without an event pending
StopPending == StopAfter(PendingEvents)

\* a child exits (crashes) on its own
ChildExit ==
    /\ ~hung
    /\ \E q \in Pids :
          /\ procs[q].st = "running"
          /\ procs' = [procs EXCEPT ![q].st = "zombie", ![q].inflight = 0]
    /\ last' = IF last.crc \in {1, 2}
               THEN [NoLast EXCEPT !.op = "exit", !.crc = last.crc,
                                   !.cpath = last.cpath, !.pid1 = last.pid1]
               ELSE [NoLast EXCEPT !.op = "exit"]
    /\ UNCHANGED <<icons, nextPid, hung, scanned>>
    /\ Idle

(***************************************************************************)
(* Requests sent to one child.                                             *)
(***************************************************************************)
MaxFrames == 3
\* the lengths of the serialized requests: {"type":"Shutdown"} is 19 bytes
RequestSizes ==
    {19, 300, MAX_MESSAGE_SIZE - 1, MAX_MESSAGE_SIZE, MAX_MESSAGE_SIZE + 1,
     2 * MAX_MESSAGE_SIZE}

SendRequest ==
    /\ Len(stdin.stream) < 5 * MaxFrames
    /\ \E len \in RequestSizes : stdin' = send_request_bytes(stdin, len)
    /\ Daemon
    /\ UNCHANGED <<stdout, message, command, layout>>

\* the child closes its stdin, or exits
CloseStdin ==
    /\ ~stdin.broken
    /\ stdin' = [stdin EXCEPT !.broken = TRUE, !.result = "none", !.len = 0,
                              !.before = stdin.stream]
    /\ Daemon
    /\ UNCHANGED <<stdout, message, command, layout>>

(***************************************************************************)
(* One wait for a frame of a child.                                        *)
(***************************************************************************)
\* the length prefixes a child may write: 19, 1 MiB - 1, 1 MiB, 1 MiB + 1,
\* 2^31 and 2^32 - 1
Prefixes ==
    {<<19, 0, 0, 0>>, <<255, 255, 15, 0>>, <<0, 0, 16, 0>>, <<1, 0, 16, 0>>,
     <<0, 0, 0, 128>>, <<255, 255, 255, 255>>}
BodySizes == {0, 19, MAX_MESSAGE_SIZE, MAX_MESSAGE_SIZE + 1}
Gaps == {0, 300, 600}
Timeouts == {SHUTDOWN_TIMEOUT, IPC_TIMEOUT, DEFAULT_TIMEOUT}

\* how the 4 + n bytes a child writes are cut into chunks
Cuts(n) ==
    {<<2>>, <<4 + n>>, <<4, n>>, <<1, 3, n>>, <<4, n \div 2, n - n \div 2>>}
Paced(cut, gaps) ==
    SelectSeq([i \in 1..Len(cut) |-> Chunk(gaps[i], cut[i])], LAMBDA c : c.n > 0)
PeerOutputsOf(sent) ==
    {PeerOutput(prefix, sent, json, Paced(cut, gaps), eof) :
        prefix \in Prefixes, json \in BOOLEAN,
        cut \in Cuts(sent), gaps \in [1..3 -> Gaps], eof \in {"silent", "closed"}}
PeerOutputs == UNION {PeerOutputsOf(sent) : sent \in BodySizes}

ReceiveResponse ==
    /\ stdout = NoStdout
    /\ \E out \in PeerOutputs, timeout \in Timeouts :
          stdout' = receive_response_bytes(out, timeout)
    /\ Daemon
    /\ UNCHANGED <<stdin, message, command, layout>>

(***************************************************************************)
(* One message through the codec.                                          *)
(***************************************************************************)
Floats == {"0.0", "1.5", "-2.25", "NaN", "inf", "-inf"}
IconTypes ==
    {[variant |-> v, s |-> ""] : v \in {"File", "Directory", "Application", "Symlink"}}
    \cup {[variant |-> "Custom", s |-> "clock"]}
Metadatas ==
    {[path |-> "/home/u/Desktop/a.png", name |-> "a.png", mime_type |-> mime,
      is_directory |-> FALSE, size |-> size, width |-> 64, height |-> 64,
      icon_type |-> ty, selected |-> sel, hovered |-> FALSE] :
        mime \in {none(""), Some("image/png")}, size \in {none(0), Some(4096)},
        ty \in IconTypes, sel \in BOOLEAN}
IconEvents ==
    {[variant |-> "Click", button |-> 1, x |-> x, y |-> y, paths |-> <<>>] :
        x \in Floats, y \in Floats}
    \cup {[variant |-> v, button |-> 0, x |-> "0.0", y |-> "0.0", paths |-> <<>>] :
             v \in {"HoverEnter", "HoverExit", "Selected", "Deselected"}}
    \cup {[variant |-> "Drop", button |-> 0, x |-> "0.0", y |-> "0.0",
           paths |-> paths] :
             paths \in {<<>>, <<"/tmp/a">>, <<"/tmp/a", "/tmp/b">>}}
Requests ==
    {[variant |-> "Handshake", version |-> v] : v \in {0, PROTOCOL_VERSION}}
    \cup {[variant |-> "Render", metadata |-> m,
           context |-> [canvas_width |-> 64, canvas_height |-> 64,
                        device_pixel_ratio |-> r]] :
             m \in Metadatas, r \in Floats}
    \cup {[variant |-> "Event", event |-> e] : e \in IconEvents}
    \cup {[variant |-> "Position",
           input |-> [screen_width |-> 1920, screen_height |-> 1080,
                      icon_count |-> n, icon_index |-> 0,
                      cell_width |-> cw, cell_height |-> ch]] :
             n \in {1, 2}, cw \in {none(0), Some(96)}, ch \in {none(0), Some(96)}}
    \cup {[variant |-> "Shutdown"]}
ResponseValues ==
    {[variant |-> "HandshakeAck", version |-> v, success |-> ok] :
        v \in {0, PROTOCOL_VERSION}, ok \in BOOLEAN}
    \cup {[variant |-> "Render", commands |-> <<>>]}
    \cup {[variant |-> "Event", handled |-> h, action |-> a] :
             h \in BOOLEAN,
             a \in {none([action |-> "", payload |-> none("")]),
                    Some([action |-> "none", payload |-> none("")]),
                    Some([action |-> "open", payload |-> Some("/tmp/a")])}}
    \cup {[variant |-> "Position", position |-> [x |-> x, y |-> y]] :
             x \in {-1, 0, 7}, y \in {-1, 0, 9}}
    \cup {[variant |-> "Error", message |-> msg] : msg \in {"", "syntax error"}}
    \cup {[variant |-> "ShutdownAck"]}

RoundTripRequest ==
    /\ message = NoMessage
    /\ \E m \in Requests : message' = request_round_trip(m, serialize_request(m))
    /\ Daemon
    /\ UNCHANGED <<stdin, stdout, command, layout>>

RoundTripResponse ==
    /\ message = NoMessage
    /\ \E m \in ResponseValues :
          message' = response_round_trip(m, serialize_response(m))
    /\ Daemon
    /\ UNCHANGED <<stdin, stdout, command, layout>>

(***************************************************************************)
(* One command line built.  Directories may be named like an option.       *)
(***************************************************************************)
OptionNamed == PathBuf("--setenv", FALSE)
ShareDir == PathBuf("/usr/share/cvh-icons", FALSE)
WidgetDir == PathBuf("/home/u/.config/cvh/widgets", FALSE)
RawDir == PathBuf("/srv/icons", TRUE)

HandlerPaths ==
    {[parent |-> Some(ShareDir),
      path |-> PathBuf("/usr/share/cvh-icons/ipc_handler.lua", FALSE)],
     [parent |-> Some(OptionNamed),
      path |-> PathBuf("--setenv/ipc_handler.lua", FALSE)]}
IconScriptPaths ==
    {[parent |-> Some(ShareDir), path |-> PathBuf("/usr/share/cvh-icons/file.lua", FALSE)],
     [parent |-> Some(WidgetDir),
      path |-> PathBuf("/home/u/.config/cvh/widgets/file.lua", FALSE)],
     [parent |-> Some(OptionNamed), path |-> PathBuf("--setenv/--clearenv", FALSE)]}
Options ==
    {[allow_network |-> net, read_only_paths |-> ro, read_write_paths |-> rw,
      env_vars |-> env, work_dir |-> wd] :
        net \in BOOLEAN,
        ro \in {<<>>,
                <<PathBuf("/usr", FALSE), PathBuf("/lib", FALSE), PathBuf("/lib64", FALSE)>>,
                <<OptionNamed, RawDir>>},
        rw \in {<<>>, <<PathBuf("/var/cache/cvh", FALSE)>>, <<OptionNamed>>},
        env \in {<<>>, <<<<"TZ", "UTC">>>>,
                 <<<<"TZ", "UTC">>, <<"--clearenv", "--setenv">>>>,
                 <<<<"PATH", "/opt/bin">>, <<"CVH_ICON_SCRIPT", "other.lua">>>>,
                 <<<<"TZ", "UTC">>, <<"TZ", "CET">>>>},
        wd \in {none(OptionNamed), Some(PathBuf("/tmp", FALSE)), Some(OptionNamed)}}
AllPaths ==
    {OptionNamed, ShareDir, WidgetDir, RawDir, PathBuf("/usr", FALSE),
     PathBuf("/lib", FALSE), PathBuf("/lib64", FALSE), PathBuf("/var/cache/cvh", FALSE)}
FileSystems ==
    {[exists |-> e, symlinks |-> l] :
        e \in {AllPaths, {ShareDir}},
        l \in {{}, {PathBuf("/lib", FALSE), PathBuf("/lib64", FALSE)}}}

BuildBwrapCommand ==
    /\ command = NoCommand
    /\ \E fs \in FileSystems, options \in Options, handler_path \in HandlerPaths,
          icon_script_path \in IconScriptPaths :
          command' = Built(fs, options,
                           build_bwrap_command(fs, options, handler_path,
                                               icon_script_path))
    /\ Daemon
    /\ UNCHANGED <<stdin, stdout, message, layout>>

(***************************************************************************)
(* The daemon from its start, with the watched directory.  Entries are     *)
(* created, removed and modified at any time; the watcher reports a change *)
(* that happens while it watches.                                          *)
(***************************************************************************)
MaxPending == 2

\* an entry of the watched directory is created, removed or modified
FsChange ==
    /\ desk.watching => Len(desk.pending) < MaxPending
    /\ \E path \in Paths, kind \in {"Create", "Remove", "Modify"} :
          /\ (kind = "Create") = (path \notin desk.dir)
          /\ desk' = [desk EXCEPT
                        !.dir = IF kind = "Create" THEN @ \cup {path}
                                ELSE IF kind = "Remove" THEN @ \ {path} ELSE @,
                        !.pending = IF desk.watching
                                    THEN Append(@, [kind |-> kind, path |-> path])
                                    ELSE @]
    /\ UNCHANGED <<icons, procs, nextPid, hung, scanned, last>>
    /\ Channels

\* IconDaemon::new: the initial scan of the directory as it is
NewDaemon ==
    /\ scanned = "no"
    /\ \E order \in Orders(desk.dir),
          abeh \in {a \in [desk.dir -> AddBeh] :
                      \A path \in desk.dir :
                         a[path] \in IF hidden_entry(path) THEN {Beh("noscript")}
                                     ELSE AddChoices(path)} :
       \E w \in {scan_desktop(World, desk.dir, order, abeh)} : Scanned(desk.dir, w)

\* run, setup_watcher: the watcher starts to watch the directory
SetupWatcher ==
    /\ Ready
    /\ ~desk.watching
    /\ desk' = [desk EXCEPT !.watching = TRUE]
    /\ UNCHANGED <<icons, procs, nextPid, hung, scanned, last>>
    /\ Channels

\* run: the oldest pending event is handled
Dispatch ==
    /\ Ready
    /\ desk.watching
    /\ desk.pending # <<>>
    /\ LET ev == Head(desk.pending) IN
       \E kbeh \in IF ev.kind \in {"Remove", "Modify"} THEN KillChoices(ev.path)
                   ELSE {Beh("silent")},
          abeh \in IF \/ ev.kind = "Create" /\ ev.path \notin DOMAIN icons
                      \/ ev.kind = "Modify" /\ ev.path \in DOMAIN icons
                   THEN AddChoices(ev.path) ELSE {Beh("silent")} :
       \E w \in {handle_fs_event(World, ev.kind, ev.path, kbeh, abeh)} :
          /\ Apply(w)
          /\ last' = Ran("event", ev.kind, ev.path, w)
    /\ desk' = [desk EXCEPT !.pending = Tail(@)]
    /\ UNCHANGED scanned
    /\ Channels

\* run: the timer fired, update_icons on the directory as it is
Tick ==
    /\ Ready
    /\ desk.watching
    /\ \E order \in Orders(DOMAIN icons),
          kbeh \in {k \in [DOMAIN icons -> KillBeh] :
                      \A path \in DOMAIN icons :
                         k[path] \in IF update(desk.dir, path) THEN {Beh("silent")}
                                     ELSE KillChoices(path)} :
       \E w \in {update_icons(World, desk.dir, order, kbeh)} :
          Handled("tick", "none", <<>>, w)
    /\ UNCHANGED scanned

\* the stand-alone wrapper builds the command line of a program
BuildCommand ==
    /\ command = NoCommand
    /\ \E fs \in FileSystems, options \in Options,
          args \in {<<>>, <<"handler.lua">>, <<"--setenv", "PATH", "/sbin">>} :
          command' = Built(fs, options, build_command(fs, options, "lua", args))
    /\ Daemon
    /\ UNCHANGED <<stdin, stdout, message, layout>>

(***************************************************************************)
(* One default position.  The arguments of request_position are u32, of    *)
(* any value; the build has overflow checks (debug) or not (release).      *)
(***************************************************************************)
ScreenWidths ==
    {as_u32(0), as_u32(39), as_u32(136), as_u32(1920), as_u32(2147483647),
     [hi |-> 32768, lo |-> 20], [hi |-> 32768, lo |-> 40],
     [hi |-> 65535, lo |-> 65535]}
IconIndexes ==
    {as_u32(0), as_u32(5), as_u32(20), as_u32(2147483647), [hi |-> 32768, lo |-> 0],
     [hi |-> 65535, lo |-> 65535]}
CellSizes ==
    {none(as_u32(0)), Some(as_u32(0)), Some(as_u32(1)), Some(as_u32(96)),
     Some(as_u32(2147483647)), Some([hi |-> 65535, lo |-> 65535])}

\* request_position on a session that has no child
RequestDefaultPosition ==
    /\ layout = NoLayout
    /\ \E screen_width \in ScreenWidths, icon_index \in IconIndexes,
          cell_width \in CellSizes, cell_height \in CellSizes,
          overflow_checks \in BOOLEAN :
          layout' = Laid(screen_width, icon_index, cell_width, cell_height,
                         default_position(screen_width, icon_index, cell_width,
                                          cell_height, overflow_checks))
    /\ Daemon
    /\ UNCHANGED <<stdin, stdout, message, command>>

Next ==
    \/ ScanDesktop
    \/ HandleFsEvent
    \/ UpdateIcons
    \/ RequestRender
    \/ RequestPosition
    \/ KillLuaProcess
    \/ Stop
    \/ ChildExit

Spec == Init /\ [][Next]_vars

\* the daemon after the scan of any directory, without filesystem events
NextScan ==
    \/ ScanDirectory
    \/ RequestRender
    \/ RequestPosition
    \/ KillLuaProcess
    \/ ChildExit

SpecScan == Init /\ [][NextScan]_vars

\* the daemon handling filesystem events on icons that are rendered,
\* selected and hovered
NextEvents ==
    \/ ScanDesktop
    \/ HandleFsEvent
    \/ RequestRender
    \/ SetSelected
    \/ SetHovered
    \/ ChildExit

SpecEvents == Init /\ [][NextEvents]_vars

\* the daemon handling filesystem events until the watcher's channel is
\* closed
NextStop ==
    \/ ScanDesktop
    \/ HandleFsEvent
    \/ RequestRender
    \/ StopPending
    \/ ChildExit

SpecStop == Init /\ [][NextStop]_vars

\* one child's stdin over the requests sent to it
NextSend ==
    \/ SendRequest
    \/ CloseStdin

SpecSend == Init /\ [][NextSend]_vars

\* one wait for a frame
NextReceive == ReceiveResponse

SpecReceive == Init /\ [][NextReceive]_vars

\* one message encoded and decoded
NextCodec ==
    \/ RoundTripRequest
    \/ RoundTripResponse

SpecCodec == Init /\ [][NextCodec]_vars

\* one command line built
NextLaunch == BuildBwrapCommand

SpecLaunch == Init /\ [][NextLaunch]_vars

\* the daemon from its start, with the watched directory
NextStartup ==
    \/ FsChange
    \/ NewDaemon
    \/ SetupWatcher
    \/ Dispatch
    \/ Tick

SpecStartup == Init /\ [][NextStartup]_vars

\* the daemon whose events are never delivered: main calls run() after
\* new(), run() sets the watcher up and then runs update_icons whenever its
\* 16 ms timer has fired
NextSweep ==
    \/ FsChange
    \/ NewDaemon
    \/ SetupWatcher
    \/ Tick

SpecSweep ==
    /\ Init /\ [][NextSweep]_vars
    /\ WF_vars(NewDaemon) /\ WF_vars(SetupWatcher) /\ WF_vars(Tick)

\* one command line built by the stand-alone wrapper
NextSandbox == BuildCommand

SpecSandbox == Init /\ [][NextSandbox]_vars

\* the pointer events of the sessions
NextClick ==
    \/ ScanDesktop
    \/ HandleFsEvent
    \/ OnClick
    \/ OnDoubleClick
    \/ ChildExit

SpecClick == Init /\ [][NextClick]_vars

\* one default position
NextPosition == RequestDefaultPosition

SpecPosition == Init /\ [][NextPosition]_vars

(***************************************************************************)
(* Properties.                                                             *)
(***************************************************************************)
FsEventKinds == {"Create", "Modify", "Remove"}

\* C1: starting from an empty session table, after a Create(p), Modify(p)
\* or Remove(p) event has been handled the table holds a session for p if
\* and only if the event was Create or Modify and the final component of p
\* does not begin with '.'.  (Removals by a tick leave the table as Remove
\* events would, so the table before the event is one a sequence of events
\* reaches from the empty table.)
C1_LastEventDecides ==
    (scanned = "empty" /\ ~hung /\ last.op = "event" /\ last.kind \in FsEventKinds)
    => ((last.path \in DOMAIN icons)
        <=> (last.kind \in {"Create", "Modify"} /\ ~starts_with_dot(last.path)))

\* C2: in every reachable state the session table has no key whose final
\* path component begins with '.'.
C2_NoHiddenSession == \A path \in DOMAIN icons : ~starts_with_dot(path)

\* C3: at any time at most one child per icon key is alive (spawned and not
\* reaped), and every child was spawned when no other child of its key was
\* alive, that is, after the previous one had been killed and reaped.
C3_OneChildPerKey ==
    /\ \A key \in Paths : Cardinality(LiveOf(procs, key)) <= 1
    /\ \A q \in Pids : procs[q].sibs = 0

\* a crash restart has replaced the first child of the visible path
C3_Witness ==
    /\ last.op \in {"render", "position"}
    /\ last.attempts = 1
    /\ \E q \in Pids : /\ q > 1
                       /\ procs[q].st = "running"
                       /\ procs[q].key = VisiblePath
                       /\ procs[1].st = "reaped"

\* C4: the first request written to any child is Handshake, and no other
\* request (Render, Position, Shutdown) is written to a child whose
\* handshake-complete flag is false, also for a child spawned by a crash
\* restart and on the kill path of a child whose handshake failed.
C4_HandshakeFirst ==
    \A q \in Pids : procs[q].first \in {"", "Handshake"} /\ ~procs[q].preHs

\* a crash restart spawned a child whose handshake failed and which was
\* killed for it
C4_Witness ==
    /\ last.op \in {"render", "position"}
    /\ last.attempts = 1
    /\ \E q \in Pids : /\ procs[q].first = "Handshake"
                       /\ ~procs[q].hs
                       /\ procs[q].st = "reaped"

\* C5: handshake_complete is true only if the reply read to Handshake was
\* HandshakeAck with success = true and version = PROTOCOL_VERSION; after
\* any other reply, a timeout or a hangup the flag is false and spawn has
\* failed: the child is killed and is no icon's process.
C5_HandshakeFlag ==
    /\ \A q \in Pids : procs[q].hs => procs[q].ackGood
    /\ \A q \in Pids :
          (procs[q].st # "none" /\ ~procs[q].ackGood)
          => /\ ~procs[q].hs
             /\ procs[q].st = "reaped"
             /\ \A path \in DOMAIN icons : icons[path].lua # q

\* a child accepted at the handshake has exited, and the child a request
\* spawned in its place was refused at the handshake
C5_Witness ==
    /\ last.op \in {"render", "position"}
    /\ \E q, r \in Pids :
          /\ procs[q].first = "Handshake" /\ ~procs[q].ackGood /\ procs[q].st = "reaped"
          /\ procs[r].hs /\ procs[r].ackGood

\* C6: when the handler that dropped a session or its child has returned,
\* that child has been terminated and reaped: every child that is no
\* icon's process any more is reaped and its pipes are closed.
C6_DroppedIsReaped ==
    ~hung =>
       \A q \in Pids :
          (procs[q].st # "none" /\ \A path \in DOMAIN icons : icons[path].lua # q)
          => (procs[q].st = "reaped" /\ ~procs[q].open)

\* a Remove event has dropped a session whose child had completed the
\* handshake
C6_Witness ==
    /\ ~hung
    /\ last.op = "event" /\ last.kind = "Remove"
    /\ \E q \in Pids : procs[q].hs /\ procs[q].st = "reaped" /\ ~procs[q].open

\* C7: the daemon never writes a request to a child while an earlier
\* request written to that child is outstanding (its reply not read, the
\* child not killed).
C7_OneOutstanding == \A q \in Pids : ~procs[q].overlap

ExchangeFailures ==
    {"Error", "Timeout", "PeerClosed", "DecodeError", "OverSize", "WriteFailed"}

\* C8: when request_render, with a running child, gets an Error response,
\* a timeout, a hangup, an undecodable or oversize frame or a write
\* failure, it attempts one restart of the child while handling that
\* failure.
C8_RestartOnFailure ==
    (last.op = "render" /\ last.failure \in ExchangeFailures) => last.after >= 1

\* C9: whenever request_render obtains no Render response it returns the
\* cached commands if the cache is not empty and the built-in fallback
\* otherwise, and never an empty list.
C9_CachedOrFallback ==
    (last.op = "render" /\ last.failure # "none")
    => /\ last.cmds = cached_or_fallback(icons[last.path])
       /\ last.cmds # <<>>

\* a spawn attempt of the session at path has failed: it has the script
\* paths and no process
SpawnFailed(path) ==
    path \in DOMAIN icons /\ icons[path].lua = 0 /\ icons[path].has_paths

\* C10: a call of request_render or request_position makes at most one
\* attempt to spawn a child; on a session whose spawn attempt has failed a
\* request spawns nothing and returns the fallback value (the built-in
\* fallback render, the default position), and only a filesystem event
\* gives the path a child again.
C10_NoRetryAfterFailedRestart ==
    [][ /\ last'.op \in {"render", "position"} => last'.attempts <= 1
        /\ (last'.op \in {"render", "position"} /\ SpawnFailed(last'.path))
           => /\ last'.attempts = 0
              /\ nextPid' = nextPid
              /\ last'.path \in DOMAIN icons' /\ icons'[last'.path].lua = 0
              /\ last'.op = "render"
                 => last'.cmds = fallback_render(icons[last'.path])
              /\ last'.op = "position" => last'.pos = last'.dflt
        /\ \A path \in Paths :
              (SpawnFailed(path) /\ path \in DOMAIN icons' /\ icons'[path].lua # 0)
              => last'.op = "event"
      ]_vars

\* a render request on a session that rendered once, lost its child and
\* failed to restart it
C10_Witness ==
    /\ last.op = "render"
    /\ last.failure = "NoProcess"
    /\ SpawnFailed(last.path)
    /\ icons[last.path].cache # <<>>

\* C11: once kill_lua_process has been called on a session, every later
\* request_render returns the built-in fallback render, every later
\* request_position the default grid position, and these calls spawn no
\* child and write to no pipe; the session has no process.
C11_TerminatedIsTerminal ==
    [][ /\ \A path \in DOMAIN icons' : icons'[path].killed => icons'[path].lua = 0
        /\ (/\ last'.op \in {"render", "position"}
            /\ last'.path \in DOMAIN icons
            /\ icons[last'.path].killed)
           => /\ last'.op = "render"
                 => last'.cmds = fallback_render(icons[last'.path])
              /\ last'.op = "position" => last'.pos = last'.dflt
              /\ last'.attempts = 0
              /\ nextPid' = nextPid
              /\ procs' = [q \in Pids |-> Forget(procs[q])]
      ]_vars

\* a render request on a session whose child had rendered before
\* kill_lua_process was called on the session
C11_Witness ==
    /\ last.op = "render"
    /\ icons[last.path].killed
    /\ icons[last.path].has_paths
    /\ icons[last.path].cache # <<>>
    /\ last.cmds = fallback_render(icons[last.path])

\* the u32 u is the number x
IsNumber(u, x) == x >= 0 /\ u.hi = x \div 65536 /\ u.lo = x % 65536

\* C12: request_position returns the child's position and stores it as the
\* session's grid coordinates when the child answers with a Position
\* response in time; in every other case it returns exactly the default
\* grid position for its inputs and leaves the stored coordinates unchanged.
C12_PositionOrDefault ==
    [][ last'.op = "position"
        => IF last'.failure = "none"
           THEN /\ IsNumber(icons'[last'.path].grid[1], last'.pos[1])
                /\ IsNumber(icons'[last'.path].grid[2], last'.pos[2])
           ELSE /\ last'.pos = last'.dflt
                /\ icons'[last'.path].grid = icons[last'.path].grid
      ]_vars

\* C13: after each tick (update_icons) the session table holds no session
\* whose child process has exited: every such session was removed or had
\* its child restarted during the tick.
C13_TickSweepsExitedChildren ==
    (last.op = "tick" /\ ~hung)
    => \A path \in DOMAIN icons :
          icons[path].lua # 0 => procs[icons[path].lua].st = "running"

\* C14: whatever the child script does (crash, silence, Error, malformed or
\* oversize frame, failed handshake, failed restart), after a request that
\* got no answer from it the icon's session is still in the table, a render
\* request has returned commands that draw the icon (the fallback render or
\* the cached commands, never nothing) and a position request has returned
\* the default grid position.
C14_IconSurvivesScript ==
    (last.op \in {"render", "position"} /\ last.failure # "none")
    => /\ last.path \in DOMAIN icons
       /\ last.op = "render"
          => /\ last.cmds # <<>>
             /\ last.cmds \in {fallback_render(icons[last.path]), icons[last.path].cache}
       /\ last.op = "position" => last.pos = last.dflt

\* the call behind an entry of a log
StepOf(e) ==
    CASE e \in {"Shutdown", "Shutdown:EPIPE"} -> "Shutdown"
      [] e \in {"SIGKILL", "kill:exited"} -> "kill"
      [] OTHER -> e
Steps(log) == [i \in 1..Len(log) |-> StepOf(log[i])]
\* one run of kill(), by handshake_complete
Rounds(hs) ==
    IF hs THEN {<<"Shutdown", "ShutdownAck", "wait">>, <<"Shutdown", "kill", "wait">>}
    ELSE {<<"kill", "wait">>}
\* a LuaProcess is destroyed by its drop (one kill()), or by a kill()
\* followed by its drop (two)
CleanupLogs(hs) ==
    {r \o <<"drop">> : r \in Rounds(hs)}
    \cup {r1 \o r2 \o <<"drop">> : r1 \in Rounds(hs), r2 \in Rounds(hs)}
\* the LuaProcess of a child that was spawned has been dropped
Destroyed(p) == p.key # <<>> /\ ~p.open

C16_KillReturns == ~hung

\* the entries of a log that change nothing: a write that failed, a
\* child.kill() that sent no signal, a child.wait() that returned at once
NoEffect == {"Shutdown:EPIPE", "kill:exited", "wait", "drop"}

\* kill() returned k2 when called again after it had returned k1
KilledAgain(k1, k2) ==
    /\ ~k2.hung
    /\ [k2.p EXCEPT !.log = k1.p.log] = k1.p
    /\ \A i \in Len(k1.p.log) + 1..Len(k2.p.log) : k2.p.log[i] \in NoEffect

\* kill() called twice on a LuaProcess, the first call returning k1
KilledTwice(k1, beh) == ~k1.hung => KilledAgain(k1, kill(k1.p, beh))

\* C17: kill() is idempotent: a second kill() on the same LuaProcess (as
\* when kill_lua_process calls kill() and the LuaProcess is then dropped)
\* leaves the state as the first call left it, writes no further Shutdown
\* and signals no process.
C17_KillIdempotent ==
    \A q \in Pids :
       /\ \A i, j \in 1..Len(procs[q].log) :
             (i < j /\ procs[q].log[i] = "wait") => procs[q].log[j] \in NoEffect
       /\ (procs[q].open /\ procs[q].st # "none")
          => \A beh \in KillBeh : KilledTwice(kill(procs[q], beh), beh)

C17_Witness ==
    /\ last.op = "kill"
    /\ \E q \in Pids :
          procs[q].log = <<"Shutdown", "ShutdownAck", "wait",
                           "Shutdown:EPIPE", "kill:exited", "wait", "drop">>

\* C18: when the child answers Handshake with HandshakeAck, success = true
\* and a version other than PROTOCOL_VERSION, the spawn fails, the child is
\* killed and reaped before spawn returns, no Shutdown or other request is
\* ever written to it, and the icon is left without a child.
C18_VersionMismatchIsFatal ==
    \A q \in Pids :
       procs[q].mismatch
       => /\ ~procs[q].hs
          /\ procs[q].st = "reaped"
          /\ ~procs[q].open
          /\ procs[q].first = "Handshake"
          /\ ~procs[q].preHs
          /\ procs[q].log = <<"SIGKILL", "wait", "drop">>
          /\ \A path \in DOMAIN icons : icons[path].lua # q
          /\ procs[q].key \in DOMAIN icons => icons[procs[q].key].lua = 0

C18_Witness ==
    /\ last.op = "event"
    /\ last.kind = "Create"
    /\ \E q \in Pids : procs[q].mismatch /\ procs[q].key = last.path
                        /\ last.path \in DOMAIN icons

\* C19: after the initial scan of the watched directory the keys of the
\* session table are exactly the directory's entries whose final path
\* component does not begin with '.'.
C19_ScanSkipsHidden ==
    last.op = "scan" => DOMAIN icons = {path \in last.dir : ~starts_with_dot(path)}

\* C20: for the events Create(p), Remove(p), Create(p) with p not hidden,
\* handled from an empty table, the session count goes 0, 1, 0, 1, and the
\* child of the session that exists after the third event is a newly
\* spawned process, different from the child of the first session and
\* spawned only after that first child was terminated.
C20_CreateRemoveCreate ==
    (last.crc > 0 /\ ~starts_with_dot(last.cpath))
    => /\ last.crc = 1 => DOMAIN icons = {last.cpath}
       /\ last.crc = 2 => DOMAIN icons = {}
       /\ last.crc = 3
          => /\ DOMAIN icons = {last.cpath}
             /\ last.pid1 # 0 => ~Live(procs[last.pid1]) /\ ~procs[last.pid1].open
             /\ icons[last.cpath].lua # 0
                => /\ icons[last.cpath].lua # last.pid1
                   /\ procs[icons[last.cpath].lua].sibs = 0
                   /\ procs[icons[last.cpath].lua].st = "running"

C20_Witness ==
    /\ last.op = "event"
    /\ last.crc = 3
    /\ ~starts_with_dot(last.cpath)
    /\ last.pid1 # 0
    /\ icons[last.cpath].lua # 0

\* C21: a Modify event for a path that has a session destroys the session
\* and creates a new one for the path: afterwards the table has the same
\* keys, the old child was terminated before the new child was spawned, and
\* the new session is freshly initialised (empty render cache, not selected,
\* not hovered).
C21_ModifyRecreates ==
    [][ (/\ last'.op = "event"
         /\ last'.kind = "Modify"
         /\ last'.path \in DOMAIN icons
         /\ ~hung')
        => /\ DOMAIN icons' = DOMAIN icons
           /\ icons'[last'.path].cache = <<>>
           /\ ~icons'[last'.path].selected
           /\ ~icons'[last'.path].hovered
           /\ icons[last'.path].lua # 0
              => /\ ~Live(procs'[icons[last'.path].lua])
                 /\ ~procs'[icons[last'.path].lua].open
                 /\ icons'[last'.path].lua # icons[last'.path].lua
           /\ icons'[last'.path].lua # 0
              => /\ procs'[icons'[last'.path].lua].sibs = 0
                 /\ procs'[icons'[last'.path].lua].st = "running"
      ]_vars

C21_Witness ==
    /\ last.op = "event"
    /\ last.kind = "Modify"
    /\ last.path \in DOMAIN icons
    /\ icons[last.path].lua = 2
    /\ procs[1].log # <<>>

\* C22: events that do not apply are no-ops: a Modify or a Remove for a path
\* that has no session, and an event of a kind other than Create, Remove and
\* Modify, leave the session table and every child as they were.
C22_OtherEventsIgnored ==
    [][ (/\ last'.op = "event"
         /\ \/ last'.kind \in {"Modify", "Remove"} /\ last'.path \notin DOMAIN icons
            \/ last'.kind \notin FsEventKinds)
        => /\ icons' = icons
           /\ procs' = [q \in Pids |-> Forget(procs[q])]
           /\ nextPid' = nextPid
           /\ last'.attempts = 0
           /\ ~hung'
      ]_vars

C22_Witness ==
    /\ last.op = "event"
    /\ last.kind = "Modify"
    /\ last.path = HiddenPath
    /\ DOMAIN icons = {VisiblePath}
    /\ icons[VisiblePath].lua # 0
    /\ procs[icons[VisiblePath].lua].st = "running"

\* C23: a Create event for a path that already has a session is a no-op:
\* the table keeps its one session for the path, with the same child, render
\* cache and state as before, and no child is spawned.
C23_CreateExistingIgnored ==
    [][ (/\ last'.op = "event"
         /\ last'.kind = "Create"
         /\ last'.path \in DOMAIN icons)
        => /\ icons' = icons
           /\ procs' = [q \in Pids |-> Forget(procs[q])]
           /\ nextPid' = nextPid
           /\ last'.attempts = 0
           /\ ~hung'
      ]_vars

C23_Witness ==
    /\ last.op = "event"
    /\ last.kind = "Create"
    /\ last.crc = 0
    /\ last.path = VisiblePath
    /\ DOMAIN icons = {VisiblePath}
    /\ icons[VisiblePath].lua # 0
    /\ icons[VisiblePath].cache # <<>>
    /\ procs[icons[VisiblePath].lua].st = "running"

IsWait(e) == e = "wait"
\* the calls of child.wait() that returned, in a log
Waits(log) == Len(SelectSeq(log, IsWait))

\* C24: when the watcher's channel is closed the run loop stops after it
\* has handled the filesystem events it had received, and every session's
\* child is shut down or killed, and reaped, before the daemon terminates.
C24_StopAfterPending ==
    [][ (last'.op = "stop" /\ ~hung')
        => /\ scanned' = "stopped"
           /\ icons' = <<>>
           /\ \A q \in Pids :
                 /\ ~Live(procs'[q])
                 /\ ~procs'[q].open
                 /\ Live(procs[q]) => /\ Waits(procs'[q].log) >= 1
                                      /\ Destroyed(procs'[q])
           /\ \A path \in DOMAIN icons :
                 (/\ last'.kind \in {"Remove", "Modify"}
                  /\ last'.path = path
                  /\ icons[path].lua # 0)
                 => Waits(procs'[icons[path].lua].log) = 2
      ]_vars

C24_Witness ==
    /\ last.op = "stop"
    /\ last.kind = "Remove"
    /\ scanned = "stopped"
    /\ ~hung
    /\ \E q \in Pids : /\ procs[q].key = last.path
                        /\ Waits(procs[q].log) = 2
                        /\ procs[q].log[2] = "ShutdownAck"

\* C29: every wait for a child's response on the reactor thread has a
\* timeout of at most 500 ms (the wait for ShutdownAck 100 ms): the waits
\* for Render and Position replies, and the wait for HandshakeAck when a
\* session's child is spawned or restarted.
C29_WaitsAtMostHalfSecond == \A q \in Pids : procs[q].maxwait <= 500

\* the stream is a concatenation of frames: four bytes, then as many
\* bytes as the four bytes say as a little-endian u32, at most 1 MiB
RECURSIVE WellFormed(_)
WellFormed(stream) ==
    \/ stream = <<>>
    \/ /\ Len(stream) >= 5
       /\ \A i \in 1..4 : stream[i].n = 1 /\ stream[i].v \in 0..255
       /\ LET L == from_le_bytes([i \in 1..4 |-> stream[i].v]) IN
            /\ ~too_large(L)
            /\ as_usize(L) <= 1048576
            /\ stream[5] = Text(as_usize(L))
       /\ WellFormed(SubSeq(stream, 6, Len(stream)))

PrefixRead ==
    stdout.res \in {"ok", "too_large", "deserialize", "data:timeout", "data:hangup"}
\* the length the prefix declares is 1,048,577 or more
DeclaredAbove ==
    \/ stdout.out.prefix[4] > 0
    \/ stdout.out.prefix[3] > 16
    \/ stdout.out.prefix[3] = 16 /\ (stdout.out.prefix[2] > 0 \/ stdout.out.prefix[1] > 0)
DeclaredMiB == stdout.out.prefix = <<0, 0, 16, 0>>

\* C26: receive_response_with_timeout accepts a frame whose declared
\* length is exactly 1,048,576: it reads the body and returns the response
\* the body decodes to; it rejects every frame whose declared length is
\* 1,048,577 or more with an error and reads no byte of its body.
C26_SizeLimitOnReceive ==
    PrefixRead
    => /\ DeclaredAbove => stdout.res = "too_large" /\ stdout.body = 0
       /\ DeclaredMiB
           => /\ stdout.res # "too_large"
              /\ stdout.res \in {"ok", "deserialize"} => stdout.body = 1048576
              /\ stdout.res \notin {"data:timeout", "data:hangup"}
                 /\ stdout.out.json /\ stdout.out.sent = 1048576
                 => stdout.res = "ok"
       /\ stdout.res = "too_large" => DeclaredAbove

\* a frame of exactly 1 MiB was received, its body arriving in two chunks
C26_Witness ==
    /\ stdout.res = "ok"
    /\ DeclaredMiB
    /\ stdout.body = 1048576
    /\ Len(stdout.out.chunks) = 3

\* C28: one call receive_response_with_timeout(T) waits at most T in all:
\* the waits for the prefix and for the body use only what remains of T,
\* so the call returns no later than T after it began, however the child
\* paces its bytes.
C28_TotalWaitWithinTimeout ==
    stdout.res # "none" => stdout.elapsed <= stdout.timeout

\* C27: for every Request value and every Response value m, of every
\* variant, deserialize(serialize(m)) with the tagged JSON encoding succeeds
\* and yields a value equal to m, and the encoded object has a top-level
\* field "type" equal to the name of m's variant.
C27_JsonRoundTrip ==
    message.family # "none"
    => /\ message.decoded.ok
       /\ message.decoded.v.variant = message.m.variant
       /\ message.decoded.v = message.m
       /\ message.json.j = "object"
       /\ field(message.json.o, "type") = JStr(message.m.variant)

\* the indices of the options of the command that are name
OptionsNamed(name) == {i \in command.opts : command.args[i] = name}

\* C30: for every SandboxOptions, handler path and widget path the argument
\* vector build_bwrap_command builds has the option --clearenv, once, at an
\* index strictly smaller than the index of every option --setenv (an
\* argument that is an option of the command, not the operand of another
\* option), so that no variable set by --setenv is wiped when the options
\* are applied in order.
C30_ClearenvBeforeSetenv ==
    command.built
    => /\ Cardinality(OptionsNamed("--clearenv")) = 1
       /\ OptionsNamed("--setenv") # {}
       /\ \A c \in OptionsNamed("--clearenv"), i \in OptionsNamed("--setenv") : c < i

\* a command with caller's variables, built for a working directory whose
\* name is that of an option
C30_Witness ==
    /\ command.built
    /\ command.options.work_dir = Some(OptionNamed)
    /\ Cardinality(OptionsNamed("--setenv")) = 6
    /\ \E i \in 1..Len(command.args) :
          i \notin command.opts /\ command.args[i] = "--setenv"

\* the environment of the sandboxed program when the options of args from
\* index i on are applied in order to the environment env
RECURSIVE applied(_, _, _, _)
applied(args, opts, i, env) ==
    IF i > Len(args) THEN env
    ELSE IF i \in opts /\ args[i] = "--clearenv"
    THEN applied(args, opts, i + 1, [k \in {} |-> ""])
    ELSE IF i \in opts /\ args[i] = "--setenv"
    THEN applied(args, opts, i + 3, (args[i + 1] :> args[i + 2]) @@ env)
    ELSE applied(args, opts, i + 1, env)

\* the first option --setenv of the variable key
FirstSetenv(key) ==
    CHOOSE i \in OptionsNamed("--setenv") :
        /\ command.args[i + 1] = key
        /\ \A h \in OptionsNamed("--setenv") : command.args[h + 1] = key => i <= h

\* the caller's value of its variable n: that of the last pair with its key
CallersValue(n) ==
    LET env_vars == command.options.env_vars
        last_pair == CHOOSE j \in 1..Len(env_vars) :
                        /\ env_vars[j][1] = env_vars[n][1]
                        /\ \A h \in 1..Len(env_vars) :
                              env_vars[h][1] = env_vars[n][1] => h <= j
    IN env_vars[last_pair][2]

\* C31: for every pair (K, V) of SandboxOptions.env_vars the launcher's
\* argument vector has an option --setenv K V after the --setenv of PATH,
\* HOME, LANG and CVH_ICON_SCRIPT, so that applying the options in order
\* leaves K bound to the caller's value, also when K is PATH.
C31_CallerEnvAfterEssential ==
    command.built
    => \A n \in 1..Len(command.options.env_vars) :
          /\ \E i \in OptionsNamed("--setenv") :
                /\ command.args[i + 1] = command.options.env_vars[n][1]
                /\ command.args[i + 2] = command.options.env_vars[n][2]
                /\ \A key \in {"PATH", "HOME", "LANG", "CVH_ICON_SCRIPT"} :
                      FirstSetenv(key) < i
          /\ applied(command.args, command.opts, 1, [k \in {} |-> ""])
                 [command.options.env_vars[n][1]] = CallersValue(n)

\* a command built for a caller that sets PATH
C31_Witness ==
    /\ command.built
    /\ command.options.env_vars # <<>>
    /\ command.options.env_vars[1] = <<"PATH", "/opt/bin">>
    /\ Cardinality({i \in OptionsNamed("--setenv") : command.args[i + 1] = "PATH"}) = 2

\* the cell size of the layout that option o gives, 96 without one
CellOf(o) == as_i32(unwrap_or(o, as_u32(96)))
\* the number of columns of the layout
Cols ==
    Max(1, (as_i32(layout.screen_width) - 40) \div CellOf(layout.cell_width))
\* coordinate c is 20 + n * cell, as numbers without bound
Is20Plus(c, n, cell) ==
    c >= 20 /\ (c - 20) % cell = 0 /\ (c - 20) \div cell = n

\* C32: for screen_width, icon_index and cell sizes within the signed 32-bit
\* range, the cell sizes positive (96 when absent), the default position is
\* x = 20 + (index mod cols) * cell_w and y = 20 + floor(index / cols) * cell_h
\* with cols = max(1, floor((screen_width - 40) / cell_w)); it is (116, 116)
\* for screen_width 1920, index 20 and cells of 96 by 96.
C32_DefaultPositionFormula ==
    ( /\ layout.done
      /\ layout.screen_width.hi < 32768
      /\ layout.icon_index.hi < 32768
      /\ CellOf(layout.cell_width) > 0
      /\ CellOf(layout.cell_height) > 0 )
    => /\ ~layout.panicked
       /\ Is20Plus(layout.position[1], as_i32(layout.icon_index) % Cols,
                   CellOf(layout.cell_width))
       /\ Is20Plus(layout.position[2], as_i32(layout.icon_index) \div Cols,
                   CellOf(layout.cell_height))
       /\ ( /\ layout.screen_width = as_u32(1920)
            /\ layout.icon_index = as_u32(20)
            /\ CellOf(layout.cell_width) = 96
            /\ CellOf(layout.cell_height) = 96 )
          => layout.position = <<116, 116>>

\* C40: request_position on a session without a child returns a position
\* for every u32 screen_width and icon_index and every optional cell width
\* and height, without a division by zero and without an overflow, and the
\* x and y it returns are at least 20.
C40_DefaultPositionTotal ==
    layout.done
    => /\ ~layout.panicked
       /\ ~layout.overflowed
       /\ layout.position[1] >= 20
       /\ layout.position[2] >= 20

\* the palette colour of an icon type
Palette(icon_type) ==
    CASE icon_type = "Folder" -> "#4A90D9"
      [] icon_type = "Executable" -> "#73D216"
      [] icon_type = "Image" -> "#F57900"
      [] icon_type = "Document" -> "#EDD400"
      [] icon_type = "Archive" -> "#75507B"
      [] icon_type = "Video" -> "#C17D11"
      [] icon_type = "Audio" -> "#CC0000"
      [] OTHER -> "#888888"

\* the last handler was request_render on a session with an empty cache,
\* and its wait of 500 ms for the reply of the running child timed out
RenderTimedOutUncached ==
    /\ last.op = "render"
    /\ last.failure = "Timeout"
    /\ icons[last.path].cache = <<>>

C34_EventWrittenToChild ==
    [][\A path \in DOMAIN icons :
          ( /\ last'.op \in {"click", "double_click"}
            /\ last'.path = path
            /\ <<last, icons>>' # <<last, icons>>
            /\ Running(path) )
          => /\ icons[path].lua \in DOMAIN procs'
             /\ procs'[icons[path].lua].inflight = procs[icons[path].lua].inflight + 1]_vars

\* C35: every response a session accepts as the reply to a request was
\* written by the child in reply to that same request, after any sequence
\* of requests, timeouts and rejected frames on the child: when
\* request_render returns and caches a Render response, or request_position
\* stores a Position response, the child has answered the request just
\* written, so that no request written to it is left unanswered.
C35_ReplyToSameRequest ==
    ( /\ last.op \in {"render", "position"}
      /\ last.failure = "none"
      /\ last.path \in DOMAIN icons
      /\ icons[last.path].lua # 0 )
    => Outstanding(procs[icons[last.path].lua]) = 0

\* C36: the argument vector BubblewrapSandbox::build_command builds has
\* --clearenv before every --setenv, so that each variable of
\* SandboxOptions.env_vars is in the environment of the sandboxed program
\* when the options are applied in order.
C36_SandboxClearenvBeforeSetenv ==
    command.built
    => /\ \A c \in OptionsNamed("--clearenv"), i \in OptionsNamed("--setenv") : c < i
       /\ \A n \in 1..Len(command.options.env_vars) :
             command.options.env_vars[n][1]
                \in DOMAIN applied(command.args, command.opts, 1, [k \in {} |-> ""])

\* C37: no directory entry is missed at startup: once the daemon is running
\* (the watcher watches) and its event queue has drained, every entry of the
\* watched directory that is not hidden has a session, also an entry
\* created after the initial scan and before the watcher started.
C37_NoEntryMissed ==
    (desk.watching /\ desk.pending = <<>> /\ ~hung)
    => \A path \in desk.dir : ~starts_with_dot(path) => path \in DOMAIN icons

\* the children spawned for the session of path that are running
RunningChildren(path) ==
    {q \in Pids : procs[q].key = path /\ procs[q].st = "running"}

\* C38: a session whose backing path no longer exists is removed from the
\* table by a render tick, which terminates its child, also when no Remove
\* event for the path is ever handled: every session of a deleted path is
\* eventually removed (unless the path exists again).
C38_DeletedEventuallyRemoved ==
    \A path \in Paths :
        (path \in DOMAIN icons /\ path \notin desk.dir)
        ~> \/ path \in desk.dir
           \/ path \notin DOMAIN icons /\ RunningChildren(path) = {}

\* C39: the cached render commands of a session change only when
\* request_render on the session receives a Render response, and then they
\* become exactly the commands of that response; a failed or timed-out
\* render request, a position request, a restart of the child and kill
\* leave them unchanged.  (A Modify event replaces the session by a new one.)
C39_CacheChangesOnlyOnRender ==
    [][\A path \in DOMAIN icons \cap DOMAIN icons' :
          icons'[path].cache # icons[path].cache
          => \/ /\ last'.op = "render"
                /\ last'.path = path
                /\ last'.failure = "none"
                /\ icons'[path].cache = last'.cmds
             \/ /\ last'.op = "event"
                /\ last'.kind = "Modify"
                /\ last'.path = path]_vars

\* a Render response was received and cached by a session that had its
\* child restarted before
C39_Witness ==
    /\ last.op = "render"
    /\ last.failure = "none"
    /\ last.path \in DOMAIN icons
    /\ icons[last.path].cache = last.cmds
    /\ last.cmds = <<ScriptCommand>>
    /\ icons[last.path].lua = 2

====
